---- MODULE Spec2Model ----
(***************************************************************************)
(* Model of the payroll simulation engine calculateFullPayroll             *)
(* (src/services/payrollService.ts).  A run is a state machine: Start      *)
(* (validation, initial fixation, first increment date), one MonthStep per *)
(* iteration of the monthly loop, Finish (result assembly).  Dates are     *)
(* days since 1970-01-01 (every Date of the engine is a UTC midnight);     *)
(* months are 0-based as in the JavaScript Date API.  An optional value is *)
(* a sequence of length 0 or 1.  A scale string "a-b-c" is the sequence    *)
(* <<a, b, c>> of its dash-separated numbers.                              *)
(***************************************************************************)
EXTENDS Integers, Sequences, FiniteSets, TLC

VARIABLES input, sim

vars == <<input, sim>>

None == <<>>
Some(x) == <<x>>
IsSome(o) == Len(o) > 0
Val(o) == o[1]

Max(a, b) == IF a >= b THEN a ELSE b
Min(a, b) == IF a <= b THEN a ELSE b

\* ------------------------------------------------------------------ dates

IsLeap(y) == (y % 4 = 0 /\ y % 100 # 0) \/ y % 400 = 0

DaysInMonth(y, m) ==
    IF m = 1 THEN (IF IsLeap(y) THEN 29 ELSE 28)
    ELSE IF m \in {3, 5, 8, 10} THEN 30 ELSE 31

\* days of a common year before its month m (m in 0..12)
CumulativeDays == <<0, 31, 59, 90, 120, 151, 181, 212, 243, 273, 304, 334, 365>>

\* days of year y before its month m (m in 0..12)
DaysBeforeMonth(y, m) ==
    CumulativeDays[m + 1] + (IF m >= 2 /\ IsLeap(y) THEN 1 ELSE 0)

LeapsBefore(y) == ((y - 1) \div 4) - ((y - 1) \div 100) + ((y - 1) \div 400)

DaysBeforeYear(y) == 365 * (y - 1970) + LeapsBefore(y) - LeapsBefore(1970)

\* Date.UTC(y, m, d): month and day overflow are carried, as the Date API does
DateUTC(y, m, d) ==
    LET yy == y + (m \div 12)
        mm == m % 12
    IN DaysBeforeYear(yy) + DaysBeforeMonth(yy, mm) + (d - 1)

getUTCFullYear(t) ==
    LET g == 1970 + (t \div 365)
    IN IF DaysBeforeYear(g) > t THEN g - 1 ELSE g

\* the month m with DaysBeforeMonth(y, m) <= day of year < DaysBeforeMonth(y, m + 1):
\* day of year \div 29 is that month or the one after it
getUTCMonth(t) ==
    LET y == getUTCFullYear(t)
        doy == t - DaysBeforeYear(y)
        g == Min(11, doy \div 29)
    IN IF DaysBeforeMonth(y, g) > doy THEN g - 1 ELSE g

getUTCDate(t) ==
    LET y == getUTCFullYear(t)
    IN t - DaysBeforeYear(y) - DaysBeforeMonth(y, getUTCMonth(t)) + 1

\* d.setUTCMonth(m): same year and day of month, month m, overflow carried
setUTCMonth(t, m) == DateUTC(getUTCFullYear(t), m, getUTCDate(t))

\* d.setUTCFullYear(y): same month and day of month, overflow carried
setUTCFullYear(t, y) == DateUTC(y, getUTCMonth(t), getUTCDate(t))

\* d.setUTCDate(n): same year and month, day n, overflow carried
setUTCDate(t, n) == DateUTC(getUTCFullYear(t), getUTCMonth(t), n)

\* parseDateUTC of the string "y-m-d" (m 1-based in the string)
parseDateUTC(y, m, d) == DateUTC(y, m - 1, d)

\* the first day of the month of t, and of the month after it
MonthStart(t) == DateUTC(getUTCFullYear(t), getUTCMonth(t), 1)
NextMonthStart(t) == DateUTC(getUTCFullYear(t), getUTCMonth(t) + 1, 1)

\* ------------------------------------------------------------- rounding

\* Math.round(x * num / 100) for an exact product: half goes up
RoundHundredths(x, num) == (x * num * 2 + 100) \div 200

\* the power of two p with p <= v100 / 100 < 2p (v100 >= 100)
RECURSIVE BinadeFloor(_, _)
BinadeFloor(v100, p) == IF 200 * p > v100 THEN p ELSE BinadeFloor(v100, 2 * p)

\* Math.round(x * 2.57): the double nearest 2.57 lies below 2.57 by d with
\* 2^-53 / d = 25/36, so a product that is exactly k + 1/2 in the binade
\* [p, 2p) is computed below k + 1/2, and rounded down to k, when x / p > 25/36
RoundFitment7(x) ==
    LET v100 == x * 257
        half == v100 % 100 = 50
        p    == BinadeFloor(v100, 1)
    IN IF half /\ x * 36 > p * 25
          THEN v100 \div 100
          ELSE RoundHundredths(x, 257)

\* Math.round(x * 1.86) and Math.round(x * 0.03): the computed product of an
\* exact k + 1/2 is not below it, so half goes up
\* RoundFitment6 dropping the fraction
RoundFitment6_Truncated(x) == (x * 186) \div 100

RoundFitment6(x) == RoundHundredths(x, 186)
RoundThreePercent(x) == RoundHundredths(x, 3)

\* ------------------------------------------------------ reference tables
\* The tables of constants.ts, in the shape the engine reads them.

\* level -> ordered pay stages
PAY_MATRIX ==
    [l \in {1, 2, 8} |->
        CASE l = 1 -> <<15700, 16200, 16700, 17200, 17700, 18200>>
          [] l = 2 -> <<15900, 16400, 16900, 17400, 17900, 18400>>
          [] l = 8 -> <<35400, 36500, 37600, 38700, 39900, 41100, 42300>>]

\* grade pay -> level
GRADE_PAY_TO_LEVEL ==
    [g \in {1300, 1400, 4200} |->
        CASE g = 1300 -> 1 [] g = 1400 -> 2 [] g = 4200 -> 8]

\* grade pay -> pay band limits
PAY_BAND_LIMITS_6TH_PC ==
    [g \in {1300, 1400, 1650, 4200} |->
        CASE g = 1300 -> [min |-> 4440, max |-> 7440]
          [] g = 1400 -> [min |-> 4440, max |-> 7440]
          [] g = 1650 -> [min |-> 4440, max |-> 7440]
          [] g = 4200 -> [min |-> 9300, max |-> 34800]]

Scale3A == <<600, 20, 700, 25, 900>>
Scale4A == <<1500, 40, 1700, 50, 2100>>
Scale5A == <<2550, 55, 2660, 60, 3200>>
Scale5Sel == <<2610, 60, 3150, 65, 3540>>
Scale5Spl == <<2650, 65, 3300, 70, 4000>>
Scale5B == <<5000, 150, 8000>>
\* scales with no counterpart in the next table
Scale3B == <<1000, 50, 1500>>
Scale4B == <<3000, 100, 4000>>
Scale5X == <<2750, 70, 3800>>

\* legacy: the scale string the identifier ends with
PAY_SCALES_3RD_PC ==
    << [id |-> "3pc-a", scale |-> Scale3A],
       [id |-> "3pc-b", scale |-> Scale3B] >>

PAY_SCALES_4TH_PC ==
    << [id |-> "4pc-a", scale |-> Scale4A, legacy |-> Some(Scale3A)],
       [id |-> "4pc-b", scale |-> Scale4B, legacy |-> None] >>

PAY_SCALES_5TH_PC ==
    << [id |-> "5pc-a", scale |-> Scale5A, legacy |-> Some(Scale4A)],
       [id |-> "5pc-sel", scale |-> Scale5Sel, legacy |-> None],
       [id |-> "5pc-b", scale |-> Scale5B, legacy |-> None] >>

\* scale: the 5th-PC scale string the entry replaces
PAY_SCALES_6TH_PC ==
    << [id |-> "6pc-a", scale |-> Scale5A, gradePay |-> 1300],
       [id |-> "6pc-sel", scale |-> Scale5Sel, gradePay |-> 1400],
       [id |-> "6pc-b", scale |-> Scale5B, gradePay |-> 4200],
       \* a grade pay with no level in GRADE_PAY_TO_LEVEL
       [id |-> "6pc-x", scale |-> Scale5X, gradePay |-> 1650] >>

\* ordinary 5th-PC scale -> selection and special grade scales
FIFTH_PC_SG_SP_GRADE_MAPPING ==
    [s \in {Scale5A} |-> [selection |-> Scale5Sel, special |-> Scale5Spl]]

\* DA table: (effective date, commission of the series, rate in percent)
DA_RATES ==
    << [date |-> parseDateUTC(1985, 7, 1), commission |-> 5, rate |-> 30],
       [date |-> parseDateUTC(1986, 1, 1), commission |-> 5, rate |-> 0],
       [date |-> parseDateUTC(1986, 7, 1), commission |-> 5, rate |-> 4],
       [date |-> parseDateUTC(1995, 7, 1), commission |-> 5, rate |-> 140],
       [date |-> parseDateUTC(1996, 1, 1), commission |-> 5, rate |-> 0],
       [date |-> parseDateUTC(1996, 7, 1), commission |-> 5, rate |-> 4],
       [date |-> parseDateUTC(2005, 7, 1), commission |-> 5, rate |-> 71],
       [date |-> parseDateUTC(2006, 1, 1), commission |-> 6, rate |-> 0],
       [date |-> parseDateUTC(2006, 7, 1), commission |-> 6, rate |-> 2],
       [date |-> parseDateUTC(2007, 1, 1), commission |-> 6, rate |-> 6],
       [date |-> parseDateUTC(2015, 7, 1), commission |-> 6, rate |-> 119],
       [date |-> parseDateUTC(2016, 1, 1), commission |-> 7, rate |-> 0],
       [date |-> parseDateUTC(2016, 7, 1), commission |-> 7, rate |-> 2],
       [date |-> parseDateUTC(2017, 1, 1), commission |-> 7, rate |-> 4],
       [date |-> parseDateUTC(2017, 7, 1), commission |-> 7, rate |-> 5],
       [date |-> parseDateUTC(2018, 1, 1), commission |-> 7, rate |-> 7] >>

\* the one revision of the 2010 list: a post and its revised scale
PAY_REVISIONS_2010 == << [postId |-> "post-1"] >>

CCA_RATES == [c \in {"A", "B", "C"} |->
                 CASE c = "A" -> 300 [] c = "B" -> 180 [] c = "C" -> 0]

\* one slab table per era: rows of (payRange, rate per city grade)
HraSlabs(era) ==
    CASE era = 7 -> << [lo |-> 0, hi |-> 30000, a |-> 1300, b |-> 700, ii |-> 400],
                       [lo |-> 30001, hi |-> 99999, a |-> 2600, b |-> 1400, ii |-> 800] >>
      [] era = 6 -> << [lo |-> 0, hi |-> 15000, a |-> 600, b |-> 320, ii |-> 180],
                       [lo |-> 15001, hi |-> 99999, a |-> 1200, b |-> 640, ii |-> 360] >>
      [] era = 60 -> << [lo |-> 0, hi |-> 99999, a |-> 400, b |-> 220, ii |-> 120] >>
      [] era = 5 -> << [lo |-> 0, hi |-> 99999, a |-> 300, b |-> 160, ii |-> 90] >>
      [] era = 4 -> << [lo |-> 0, hi |-> 99999, a |-> 150, b |-> 80, ii |-> 45] >>
      [] OTHER   -> << [lo |-> 0, hi |-> 99999, a |-> 60, b |-> 30, ii |-> 15] >>

\* ---------------------------------------------------------- pay helpers

\* index of the first element of seq satisfying Test, 0 if none
FirstIndex(seq, Test(_)) ==
    IF \E i \in 1..Len(seq) : Test(seq[i])
       THEN CHOOSE i \in 1..Len(seq) :
               Test(seq[i]) /\ \A j \in 1..(i - 1) : ~Test(seq[j])
       ELSE 0

\* the caller has checked that the level is in the matrix
\* findPayInMatrix without the fallback to the last stage
findPayInMatrix_NoFallback(pay, level) ==
    LET levelPayScale == PAY_MATRIX[level]
        AtLeast(p) == p >= pay
        i == FirstIndex(levelPayScale, AtLeast)
    IN IF i # 0 THEN levelPayScale[i] ELSE pay

findPayInMatrix(pay, level) ==
    LET levelPayScale == PAY_MATRIX[level]
        AtLeast(p) == p >= pay
        i == FirstIndex(levelPayScale, AtLeast)
    IN IF i # 0 THEN levelPayScale[i] ELSE levelPayScale[Len(levelPayScale)]

\* stages of a scale: stage k runs from parts[2k-1] to parts[2k+1] by parts[2k]
parseScale(scale) ==
    LET n == (Len(scale) - 1) \div 2
    IN [stages |-> [k \in 1..n |-> [from |-> scale[2 * k - 1],
                                    to   |-> scale[2 * k + 1],
                                    inc  |-> scale[2 * k]]],
        start  |-> scale[1],
        max    |-> scale[Len(scale)]]

\* one step within the parsed scale: the increment of the first stage whose
\* 'to' is above the pay, the last stage's increment if there is none
StepInScale(pay, scale) ==
    LET Above(st) == pay < st.to
        i == FirstIndex(scale.stages, Above)
    IN IF i # 0 THEN pay + scale.stages[i].inc
       ELSE pay + scale.stages[Len(scale.stages)].inc

\* NextHigherLoop stopping at the first value that is not below the pay
RECURSIVE NextHigherLoop_AtLeast(_, _, _)
NextHigherLoop_AtLeast(pay, currentPay, scale) ==
    IF pay < currentPay /\ pay < scale.max
       THEN NextHigherLoop_AtLeast(StepInScale(pay, scale), currentPay, scale)
       ELSE pay

RECURSIVE NextHigherLoop(_, _, _)
NextHigherLoop(pay, currentPay, scale) ==
    IF pay <= currentPay /\ pay < scale.max
       THEN NextHigherLoop(StepInScale(pay, scale), currentPay, scale)
       ELSE pay

findNextHigherStageInScale(currentPay, newScaleString) ==
    LET scale == parseScale(newScaleString)
    IN IF Len(scale.stages) = 0 THEN currentPay
       ELSE IF currentPay >= scale.max THEN scale.max
       ELSE IF currentPay < scale.start THEN scale.start
       ELSE Min(NextHigherLoop(scale.start, currentPay, scale), scale.max)

RECURSIVE IncrementInScaleLoop(_, _, _)
IncrementInScaleLoop(newPay, scale, steps) ==
    IF steps = 0 THEN newPay
    ELSE IF newPay >= scale.max THEN scale.max
    ELSE IncrementInScaleLoop(Min(StepInScale(newPay, scale), scale.max),
                              scale, steps - 1)

getIncrementInScale(currentPay, scaleString, steps) ==
    LET scale == parseScale(scaleString)
    IN IF Len(scale.stages) = 0 THEN currentPay
       ELSE IncrementInScaleLoop(currentPay, scale, steps)

\* 7th PC: steps stages up in the level, clamped to the last stage
\* IncrementInMatrix moving one stage whatever the number of steps
IncrementInMatrix_OneStage(currentPay, level, steps) ==
    LET levelPayScale == PAY_MATRIX[level]
        last == Len(levelPayScale)
        Is(p) == p = currentPay
        Gt(p) == p > currentPay
        currentIndex == FirstIndex(levelPayScale, Is)
        nextStepIndex == FirstIndex(levelPayScale, Gt)
    IN IF currentIndex = 0
          THEN IF nextStepIndex = 0 THEN currentPay
               ELSE levelPayScale[Min(nextStepIndex, last)]
          ELSE levelPayScale[Min(currentIndex + 1, last)]

IncrementInMatrix(currentPay, level, steps) ==
    LET levelPayScale == PAY_MATRIX[level]
        last == Len(levelPayScale)
        Is(p) == p = currentPay
        Gt(p) == p > currentPay
        currentIndex == FirstIndex(levelPayScale, Is)
        nextStepIndex == FirstIndex(levelPayScale, Gt)
    IN IF currentIndex = 0
          THEN IF nextStepIndex = 0 THEN currentPay
               ELSE levelPayScale[Min(nextStepIndex + steps - 1, last)]
          ELSE levelPayScale[Min(currentIndex + steps, last)]

\* 6th PC: steps times 3% of (PIPB + GP), no step once PIPB is at the band
\* maximum, the result capped at the band maximum
RECURSIVE IncrementPipbLoop(_, _, _)
IncrementPipbLoop(payInPayBand, gradePay, steps) ==
    IF steps = 0 THEN payInPayBand
    ELSE IF gradePay \in DOMAIN PAY_BAND_LIMITS_6TH_PC
            /\ payInPayBand >= PAY_BAND_LIMITS_6TH_PC[gradePay].max
         THEN payInPayBand
    ELSE IncrementPipbLoop(payInPayBand + RoundThreePercent(payInPayBand + gradePay),
                           gradePay, steps - 1)

\* IncrementIn6thPC without the cap at the band maximum after the loop
IncrementIn6thPC_Uncapped(currentPay, steps, gradePay) ==
    LET looped == IncrementPipbLoop(currentPay - gradePay, gradePay, steps)
    IN [newPay |-> looped + gradePay, newPipb |-> Some(looped)]

IncrementIn6thPC(currentPay, steps, gradePay) ==
    LET looped == IncrementPipbLoop(currentPay - gradePay, gradePay, steps)
        payInPayBand ==
            IF gradePay \in DOMAIN PAY_BAND_LIMITS_6TH_PC
               /\ looped > PAY_BAND_LIMITS_6TH_PC[gradePay].max
            THEN PAY_BAND_LIMITS_6TH_PC[gradePay].max
            ELSE looped
    IN [newPay |-> payInPayBand + gradePay, newPipb |-> Some(payInPayBand)]

\* getIncrement for commission 6 or 7 (its callers pass no other); the grade
\* pay is an optional value
getIncrement(currentPay, level, steps, commission, gradePay) ==
    IF commission = 7
       THEN [newPay |-> IncrementInMatrix(currentPay, level, steps),
             newPipb |-> None]
       ELSE IncrementIn6thPC(currentPay, steps, Val(gradePay))

mapCityClassToGrade(cityClass) ==
    CASE cityClass = "A" -> "a" [] cityClass = "B" -> "b" [] OTHER -> "ii"

getHra(basicPay, cityGrade, date) ==
    LET era == IF date >= parseDateUTC(2016, 1, 1) THEN 7
               ELSE IF date >= parseDateUTC(2006, 1, 1)
                    THEN (IF date < parseDateUTC(2009, 6, 1) THEN 60 ELSE 6)
               ELSE IF date >= parseDateUTC(1996, 1, 1) THEN 5
               ELSE IF date >= parseDateUTC(1986, 1, 1) THEN 4
               ELSE 3
        slabs == HraSlabs(era)
        In(s) == basicPay >= s.lo /\ basicPay <= s.hi
        i == FirstIndex(slabs, In)
    IN IF i = 0 THEN 0
       ELSE CASE cityGrade = "a" -> slabs[i].a
              [] cityGrade = "b" -> slabs[i].b
              [] OTHER -> slabs[i].ii

\* ------------------------------------------------- probation and tests

\* MoreThanFiveYears with years of 366 days
MoreThanFiveYears_LeapYears(normalIncrementDate, probationStartDate) ==
    normalIncrementDate - probationStartDate > 5 * 366

\* 5 * 365.25 days in milliseconds, compared in quarter days
MoreThanFiveYears(normalIncrementDate, probationStartDate) ==
    4 * (normalIncrementDate - probationStartDate) > 5 * 1461

\* calculateProbationIncrementEligibility with the normal date as the
\* effective date of a gated increment, whenever the test was passed
calculateProbationIncrementEligibility_OnNormalDate(data, incrementNumber, normalIncrementDate) ==
    LET notCleared == data.hasTestRequirement
                       /\ data.testStatus # "Passed"
                       /\ data.testStatus # "Exempted"
        probationYears ==
            IF data.probationPeriodType = "1 Year" THEN 1
            ELSE IF data.probationPeriodType = "2 Years" THEN 2
            ELSE IF (IF IsSome(data.probationPeriodMonths)
                        /\ Val(data.probationPeriodMonths) # 0
                     THEN Val(data.probationPeriodMonths) ELSE 24) <= 18
                 THEN 1 ELSE 2
        testIsPassed == data.testStatus = "Passed" /\ IsSome(data.testPassedDate)
        gated == [eligible |-> testIsPassed,
                  effectiveDate |->
                      normalIncrementDate,
                  remarks |-> IF testIsPassed
                                 THEN "sanctioned after passing test"
                                 ELSE "withheld until the prescribed test is passed"]
        normal(r) == [eligible |-> TRUE,
                      effectiveDate |-> normalIncrementDate,
                      remarks |-> r]
    IN IF notCleared
          /\ MoreThanFiveYears(normalIncrementDate, Val(data.probationStartDate))
          THEN [eligible |-> FALSE,
                effectiveDate |-> normalIncrementDate,
                remarks |-> "CRITICAL: PROBATION TERMINATED"]
       ELSE IF ~data.hasTestRequirement
          THEN normal("no test requirement")
       ELSE IF probationYears = 1
          THEN (IF incrementNumber = 1 THEN gated
                ELSE normal("test applies only to first increment"))
       ELSE (IF incrementNumber = 1 THEN normal("first increment granted normally")
             ELSE IF incrementNumber = 2 THEN gated
             ELSE normal("test applies only to second increment"))

calculateProbationIncrementEligibility(data, incrementNumber, normalIncrementDate) ==
    LET notCleared == data.hasTestRequirement
                       /\ data.testStatus # "Passed"
                       /\ data.testStatus # "Exempted"
        probationYears ==
            IF data.probationPeriodType = "1 Year" THEN 1
            ELSE IF data.probationPeriodType = "2 Years" THEN 2
            ELSE IF (IF IsSome(data.probationPeriodMonths)
                        /\ Val(data.probationPeriodMonths) # 0
                     THEN Val(data.probationPeriodMonths) ELSE 24) <= 18
                 THEN 1 ELSE 2
        testIsPassed == data.testStatus = "Passed" /\ IsSome(data.testPassedDate)
        gated == [eligible |-> testIsPassed,
                  effectiveDate |->
                      IF testIsPassed
                         THEN Max(normalIncrementDate, Val(data.testPassedDate))
                         ELSE normalIncrementDate,
                  remarks |-> IF testIsPassed
                                 THEN "sanctioned after passing test"
                                 ELSE "withheld until the prescribed test is passed"]
        normal(r) == [eligible |-> TRUE,
                      effectiveDate |-> normalIncrementDate,
                      remarks |-> r]
    IN IF notCleared
          /\ MoreThanFiveYears(normalIncrementDate, Val(data.probationStartDate))
          THEN [eligible |-> FALSE,
                effectiveDate |-> normalIncrementDate,
                remarks |-> "CRITICAL: PROBATION TERMINATED"]
       ELSE IF ~data.hasTestRequirement
          THEN normal("no test requirement")
       ELSE IF probationYears = 1
          THEN (IF incrementNumber = 1 THEN gated
                ELSE normal("test applies only to first increment"))
       ELSE (IF incrementNumber = 1 THEN normal("first increment granted normally")
             ELSE IF incrementNumber = 2 THEN gated
             ELSE normal("test applies only to second increment"))

\* -------------------------------------------------------------- set-up

\* MonthIndex counting the months from 1
MonthIndex_OneBased(name) ==
    CASE name = "jan" -> 1 [] name = "apr" -> 4 [] name = "jul" -> 7 [] name = "oct" -> 10

MonthIndex(name) ==
    CASE name = "jan" -> 0 [] name = "apr" -> 3 [] name = "jul" -> 6 [] name = "oct" -> 9

\* sum of the day lengths of the breaks whose end is after their start
\* totalBreakDays counting both the first and the last day of a break
RECURSIVE totalBreakDays_Inclusive(_)
totalBreakDays_Inclusive(breaksInService) ==
    IF Len(breaksInService) = 0 THEN 0
    ELSE LET b == breaksInService[Len(breaksInService)]
             rest == totalBreakDays_Inclusive(SubSeq(breaksInService, 1,
                                                     Len(breaksInService) - 1))
         IN IF IsSome(b.startDate) /\ IsSome(b.endDate)
               /\ Val(b.endDate) > Val(b.startDate)
            THEN rest + (Val(b.endDate) - Val(b.startDate)) + 1
            ELSE rest

RECURSIVE totalBreakDays(_)
totalBreakDays(breaksInService) ==
    IF Len(breaksInService) = 0 THEN 0
    ELSE LET b == breaksInService[Len(breaksInService)]
             rest == totalBreakDays(SubSeq(breaksInService, 1,
                                           Len(breaksInService) - 1))
         IN IF IsSome(b.startDate) /\ IsSome(b.endDate)
               /\ Val(b.endDate) > Val(b.startDate)
            THEN rest + (Val(b.endDate) - Val(b.startDate))
            ELSE rest

\* stable insertion of c into a list sorted by effectiveDate
RECURSIVE InsertByDate(_, _)
InsertByDate(sorted, c) ==
    IF Len(sorted) = 0 THEN <<c>>
    ELSE IF Val(sorted[Len(sorted)].effectiveDate) <= Val(c.effectiveDate)
         THEN Append(sorted, c)
    ELSE Append(InsertByDate(SubSeq(sorted, 1, Len(sorted) - 1), c),
                sorted[Len(sorted)])

RECURSIVE SortByDate(_)
SortByDate(changes) ==
    IF Len(changes) = 0 THEN <<>>
    ELSE InsertByDate(SortByDate(SubSeq(changes, 1, Len(changes) - 1)),
                      changes[Len(changes)])

\* the schedule changes that carry an effective date, by date
sortedIncrementChanges(data) ==
    LET Dated(c) == IsSome(c.effectiveDate)
    IN SortByDate(SelectSeq(data.annualIncrementChanges, Dated))

\* the first scheduled increment date
FirstScheduledIncrementDate(data) ==
    LET doj == Val(data.dateOfJoining)
        changes == sortedIncrementChanges(data)
        months == IF IsSome(data.incrementEligibilityMonths)
                     THEN Val(data.incrementEligibilityMonths) ELSE 6
        firstEligibleDate == setUTCMonth(doj, getUTCMonth(doj) + months)
        firstIncrementMonth == MonthIndex(changes[1].incrementMonth)
        year == IF getUTCMonth(firstEligibleDate) > firstIncrementMonth
                   THEN getUTCFullYear(firstEligibleDate) + 1
                   ELSE getUTCFullYear(firstEligibleDate)
        first == DateUTC(year, firstIncrementMonth, 1)
        shift == totalBreakDays(data.breaksInService)
    IN IF Len(changes) = 0 THEN None
       ELSE IF shift > 0 THEN Some(setUTCDate(first, getUTCDate(first) + shift))
       ELSE Some(first)

fixedDate1986 == parseDateUTC(1986, 1, 1)
fixedDate1996 == parseDateUTC(1996, 1, 1)
fixedDate2006 == parseDateUTC(2006, 1, 1)
fixedDate2016 == parseDateUTC(2016, 1, 1)

ScaleById(table, id) ==
    LET Is(sc) == sc.id = id
        i == FirstIndex(table, Is)
    IN IF i = 0 THEN None ELSE Some(table[i])

\* the commission at the date of joining
JoiningCommission(doj) ==
    IF doj < fixedDate1986 THEN 3
    ELSE IF doj < fixedDate1996 THEN 4
    ELSE IF doj < fixedDate2006 THEN 5
    ELSE IF doj < fixedDate2016 THEN 6
    ELSE 7

JoiningTable(commission) ==
    CASE commission = 3 -> PAY_SCALES_3RD_PC
      [] commission = 4 -> PAY_SCALES_4TH_PC
      [] commission = 5 -> PAY_SCALES_5TH_PC
      [] OTHER -> PAY_SCALES_6TH_PC

\* SetupError without the rejection of dates of joining before 1980
SetupError_NoEarliestDate(data) ==
    LET doj == Val(data.dateOfJoining)
        c == JoiningCommission(doj)
    IN IF ~IsSome(data.dateOfJoining) \/ ~IsSome(data.calculationStartDate)
          \/ ~IsSome(data.calculationEndDate)
          THEN "Missing Required Fields"
       ELSE IF c = 7
          THEN (IF ~IsSome(data.joiningLevel)
                   THEN "For post-2016 joiners, provide the Pay Level."
                ELSE IF Val(data.joiningLevel) \notin DOMAIN PAY_MATRIX
                   THEN "TypeError"
                ELSE "")
       ELSE IF ~IsSome(data.joiningPay) \/ ~IsSome(data.joiningScaleId)
          THEN "provide Scale and Pay"
       ELSE IF ~IsSome(ScaleById(JoiningTable(c), Val(data.joiningScaleId)))
          THEN "Invalid Scale ID"
       ELSE ""

\* the error the set-up ends in, "" if none
SetupError(data) ==
    LET doj == Val(data.dateOfJoining)
        c == JoiningCommission(doj)
    IN IF ~IsSome(data.dateOfJoining) \/ ~IsSome(data.calculationStartDate)
          \/ ~IsSome(data.calculationEndDate)
          THEN "Missing Required Fields"
       ELSE IF doj < parseDateUTC(1980, 1, 1)
          THEN "Calculations before 01-01-1980 are not supported."
       ELSE IF c = 7
          THEN (IF ~IsSome(data.joiningLevel)
                   THEN "For post-2016 joiners, provide the Pay Level."
                ELSE IF Val(data.joiningLevel) \notin DOMAIN PAY_MATRIX
                   THEN "TypeError"
                ELSE "")
       ELSE IF ~IsSome(data.joiningPay) \/ ~IsSome(data.joiningScaleId)
          THEN "provide Scale and Pay"
       ELSE IF ~IsSome(ScaleById(JoiningTable(c), Val(data.joiningScaleId)))
          THEN "Invalid Scale ID"
       ELSE ""

NoAnalysis ==
    [regular |-> 0, selectionGrade |-> 0, specialGrade |-> 0,
     promotion |-> 0, accountTest |-> 0, total |-> 0]

\* the simulation state before the set-up has run
Blank ==
    [pc |-> "start", error |-> "", currentDate |-> 0, calcEndDate |-> 0,
     currentPay |-> 0, currentCommission |-> 0, currentLevel |-> 0,
     currentPipb |-> None, currentGradePay |-> None,
     currentScaleString |-> None, currentOrdinaryScaleString |-> None,
     currentPostId |-> None,
     fixation4thPC |-> None, fixation5thPC |-> None,
     fixation6thPC |-> None, fixation7thPC |-> None,
     appliedRevisions |-> <<>>,
     incrementAnalysis |-> NoAnalysis,
     accountTestIncrementPending |-> FALSE, currentDaRate |-> 0,
     incrementsGranted |-> 0, nextScheduledIncrementDate |-> None,
     remarks |-> <<>>, didIncrementThisMonth |-> FALSE,
     periods |-> <<>>, result |-> None]

\* Setup taking the requested end whatever the date of relief
Setup_IgnoresRelief(data) ==
    LET doj == Val(data.dateOfJoining)
        c == JoiningCommission(doj)
        scaleInfo == Val(ScaleById(JoiningTable(c), Val(data.joiningScaleId)))
        end == Val(data.calculationEndDate)
    IN [Blank EXCEPT
          !.pc = "loop",
          !.currentDate = doj,
          !.calcEndDate = end,
          !.currentCommission = c,
          !.currentPostId = data.joiningPostId,
          !.currentPay = IF c = 7 THEN PAY_MATRIX[Val(data.joiningLevel)][1]
                         ELSE IF c = 6 THEN Val(data.joiningPay) + scaleInfo.gradePay
                         ELSE Val(data.joiningPay),
          !.currentLevel = IF c = 7 THEN Val(data.joiningLevel) ELSE 0,
          !.currentPipb = IF c = 6 THEN data.joiningPay ELSE None,
          !.currentGradePay = IF c = 6 THEN Some(scaleInfo.gradePay) ELSE None,
          !.currentScaleString = IF c < 6 THEN Some(scaleInfo.scale) ELSE None,
          !.currentOrdinaryScaleString = IF c = 5 THEN Some(scaleInfo.scale) ELSE None,
          !.nextScheduledIncrementDate = FirstScheduledIncrementDate(data)]

\* the state at the head of the monthly loop
\* Setup beginning the simulation at the calculation start date
Setup_FromStartDate(data) ==
    LET doj == Val(data.dateOfJoining)
        c == JoiningCommission(doj)
        scaleInfo == Val(ScaleById(JoiningTable(c), Val(data.joiningScaleId)))
        end == Val(data.calculationEndDate)
    IN [Blank EXCEPT
          !.pc = "loop",
          !.currentDate = Val(data.calculationStartDate),
          !.calcEndDate = IF IsSome(data.dateOfRelief) /\ Val(data.dateOfRelief) < end
                             THEN Val(data.dateOfRelief) ELSE end,
          !.currentCommission = c,
          !.currentPostId = data.joiningPostId,
          !.currentPay = IF c = 7 THEN PAY_MATRIX[Val(data.joiningLevel)][1]
                         ELSE IF c = 6 THEN Val(data.joiningPay) + scaleInfo.gradePay
                         ELSE Val(data.joiningPay),
          !.currentLevel = IF c = 7 THEN Val(data.joiningLevel) ELSE 0,
          !.currentPipb = IF c = 6 THEN data.joiningPay ELSE None,
          !.currentGradePay = IF c = 6 THEN Some(scaleInfo.gradePay) ELSE None,
          !.currentScaleString = IF c < 6 THEN Some(scaleInfo.scale) ELSE None,
          !.currentOrdinaryScaleString = IF c = 5 THEN Some(scaleInfo.scale) ELSE None,
          !.nextScheduledIncrementDate = FirstScheduledIncrementDate(data)]

Setup(data) ==
    LET doj == Val(data.dateOfJoining)
        c == JoiningCommission(doj)
        scaleInfo == Val(ScaleById(JoiningTable(c), Val(data.joiningScaleId)))
        end == Val(data.calculationEndDate)
    IN [Blank EXCEPT
          !.pc = "loop",
          !.currentDate = doj,
          !.calcEndDate = IF IsSome(data.dateOfRelief) /\ Val(data.dateOfRelief) < end
                             THEN Val(data.dateOfRelief) ELSE end,
          !.currentCommission = c,
          !.currentPostId = data.joiningPostId,
          !.currentPay = IF c = 7 THEN PAY_MATRIX[Val(data.joiningLevel)][1]
                         ELSE IF c = 6 THEN Val(data.joiningPay) + scaleInfo.gradePay
                         ELSE Val(data.joiningPay),
          !.currentLevel = IF c = 7 THEN Val(data.joiningLevel) ELSE 0,
          !.currentPipb = IF c = 6 THEN data.joiningPay ELSE None,
          !.currentGradePay = IF c = 6 THEN Some(scaleInfo.gradePay) ELSE None,
          !.currentScaleString = IF c < 6 THEN Some(scaleInfo.scale) ELSE None,
          !.currentOrdinaryScaleString = IF c = 5 THEN Some(scaleInfo.scale) ELSE None,
          !.nextScheduledIncrementDate = FirstScheduledIncrementDate(data)]

\* ------------------------------------------------------ the event list

Event(date, type, priority) ==
    [date |-> date, type |-> type, priority |-> priority,
     da |-> None, applyFixation |-> FALSE, promo |-> None, postId |-> None]

\* the events in the order the engine lists them
Events(data) ==
    LET DaEvent(i) == [Event(DA_RATES[i].date, "DA_CHANGE", 1)
                         EXCEPT !.da = Some(DA_RATES[i])]
        Rev(i) == [Event(parseDateUTC(2010, 8, 1), "PAY_REVISION_2010", 3)
                     EXCEPT !.postId = Some(PAY_REVISIONS_2010[i].postId)]
        DatedPromo(e) == IsSome(e.date)
        DatedTest(e) == IsSome(e.passDate)
        promos == SelectSeq(data.promotions, DatedPromo)
        tests == SelectSeq(data.accountTestPasses, DatedTest)
    IN [i \in 1..Len(DA_RATES) |-> DaEvent(i)]
       \o << Event(fixedDate1986, "PAY_COMMISSION_4", 2),
             Event(fixedDate1996, "PAY_COMMISSION_5", 2),
             Event(fixedDate2006, "PAY_COMMISSION_6", 2),
             Event(fixedDate2016, "PAY_COMMISSION_7", 2) >>
       \o (IF IsSome(data.selectionGradeDate)
              THEN << [Event(Val(data.selectionGradeDate), "SELECTION_GRADE", 3)
                         EXCEPT !.applyFixation = data.selectionGradeTwoIncrements] >>
              ELSE <<>>)
       \o (IF IsSome(data.specialGradeDate)
              THEN << [Event(Val(data.specialGradeDate), "SPECIAL_GRADE", 3)
                         EXCEPT !.applyFixation = data.specialGradeTwoIncrements] >>
              ELSE <<>>)
       \o [i \in 1..Len(promos) |->
              [Event(Val(promos[i].date), "PROMOTION", 3)
                 EXCEPT !.promo = Some(promos[i])]]
       \o [i \in 1..Len(tests) |->
              Event(Val(tests[i].passDate), "ACCOUNT_TEST_PASS", 3)]
       \o [i \in 1..Len(PAY_REVISIONS_2010) |-> Rev(i)]

\* EventsBetween with the commission transitions ahead of the DA changes
EventsBetween_TransitionFirst(events, first, next) ==
    LET InMonth(e) == first <= e.date /\ e.date < next
        P1(e) == e.priority = 1
        P2(e) == e.priority = 2
        P3(e) == e.priority = 3
        evs == SelectSeq(events, InMonth)
    IN SelectSeq(evs, P2) \o SelectSeq(evs, P1) \o SelectSeq(evs, P3)

\* the events dated from the day first to the day before next, by priority,
\* in list order within one priority (the sort is stable)
EventsBetween(events, first, next) ==
    LET InMonth(e) == first <= e.date /\ e.date < next
        P1(e) == e.priority = 1
        P2(e) == e.priority = 2
        P3(e) == e.priority = 3
        evs == SelectSeq(events, InMonth)
    IN SelectSeq(evs, P1) \o SelectSeq(evs, P2) \o SelectSeq(evs, P3)

\* the events of the year and month of currentDate
\* monthEvents leaving out the events dated on or after calculationEndDate
monthEvents_BeforeEnd(data, currentDate) ==
    EventsBetween(Events(data), MonthStart(currentDate),
                  Min(NextMonthStart(currentDate), Val(data.calculationEndDate)))

monthEvents(data, currentDate) ==
    EventsBetween(Events(data), MonthStart(currentDate), NextMonthStart(currentDate))

\* ------------------------------------------------------ event handlers
\* Each takes the simulation state s and gives the state after the handler.

Remark(s, text) == [s EXCEPT !.remarks = Append(@, text)]

Throw(s, message) == [s EXCEPT !.pc = "error", !.error = message]

\* the scale of a newer table whose identifier ends with the current scale
ScaleByLegacy(table, scaleString) ==
    LET Is(sc) == IsSome(scaleString) /\ sc.legacy = scaleString
        i == FirstIndex(table, Is)
    IN IF i = 0 THEN None ELSE Some(table[i])

\* FixTo4thPC keeping no record of the fixation
FixTo4thPC_NoSnapshot(s) ==
    LET basicPay1986 == s.currentPay
        daPortion == 0
        totalPay == basicPay1986 + daPortion
        corresponding == ScaleByLegacy(PAY_SCALES_4TH_PC, s.currentScaleString)
        newPay == findNextHigherStageInScale(totalPay, Val(corresponding).scale)
    IN IF ~IsSome(corresponding) THEN Throw(s, "Could not map 3rd PC scale")
       ELSE Remark([s EXCEPT
               !.currentPay = newPay,
               !.currentScaleString = Some(Val(corresponding).scale),
               !.currentCommission = 4],
             "Pay fixed in 4th Pay Commission")

FixTo4thPC(s) ==
    LET basicPay1986 == s.currentPay
        daPortion == 0
        totalPay == basicPay1986 + daPortion
        corresponding == ScaleByLegacy(PAY_SCALES_4TH_PC, s.currentScaleString)
        newPay == findNextHigherStageInScale(totalPay, Val(corresponding).scale)
    IN IF ~IsSome(corresponding) THEN Throw(s, "Could not map 3rd PC scale")
       ELSE Remark([s EXCEPT
               !.currentPay = newPay,
               !.currentScaleString = Some(Val(corresponding).scale),
               !.currentCommission = 4,
               !.fixation4thPC = Some([basicPay1986 |-> basicPay1986,
                                       daPortion |-> daPortion,
                                       totalPay |-> totalPay,
                                       initialRevisedPay |-> newPay])],
             "Pay fixed in 4th Pay Commission")

\* FixTo5thPC leaving the state in commission 3
FixTo5thPC_Commission3(s) ==
    LET basicPay1995 == s.currentPay
        daPortion == 958
        interimRelief == 100
        totalPay == basicPay1995 + daPortion + interimRelief
        corresponding == ScaleByLegacy(PAY_SCALES_5TH_PC, s.currentScaleString)
        newPay == findNextHigherStageInScale(totalPay, Val(corresponding).scale)
    IN IF ~IsSome(corresponding) THEN Throw(s, "Could not map 4th PC scale")
       ELSE Remark([s EXCEPT
               !.currentPay = newPay,
               !.currentScaleString = Some(Val(corresponding).scale),
               !.currentOrdinaryScaleString = Some(Val(corresponding).scale),
               !.currentCommission = 3,
               !.fixation5thPC = Some([basicPay1995 |-> basicPay1995,
                                       daPortion |-> daPortion,
                                       totalPay |-> totalPay,
                                       interimRelief |-> interimRelief,
                                       initialRevisedPay |-> newPay])],
             "Pay fixed in 5th Pay Commission")

FixTo5thPC(s) ==
    LET basicPay1995 == s.currentPay
        daPortion == 958
        interimRelief == 100
        totalPay == basicPay1995 + daPortion + interimRelief
        corresponding == ScaleByLegacy(PAY_SCALES_5TH_PC, s.currentScaleString)
        newPay == findNextHigherStageInScale(totalPay, Val(corresponding).scale)
    IN IF ~IsSome(corresponding) THEN Throw(s, "Could not map 4th PC scale")
       ELSE Remark([s EXCEPT
               !.currentPay = newPay,
               !.currentScaleString = Some(Val(corresponding).scale),
               !.currentOrdinaryScaleString = Some(Val(corresponding).scale),
               !.currentCommission = 5,
               !.fixation5thPC = Some([basicPay1995 |-> basicPay1995,
                                       daPortion |-> daPortion,
                                       totalPay |-> totalPay,
                                       interimRelief |-> interimRelief,
                                       initialRevisedPay |-> newPay])],
             "Pay fixed in 5th Pay Commission")

\* FixTo6thPC recording the pay in pay band as the revised basic pay
FixTo6thPC_SnapshotWithoutGradePay(s) ==
    LET basicPay2005 == s.currentPay
        multipliedPay == RoundFitment6(basicPay2005)
        Is(sc) == Some(sc.scale) = s.currentScaleString
        i == FirstIndex(PAY_SCALES_6TH_PC, Is)
        gradePay == PAY_SCALES_6TH_PC[i].gradePay
    IN IF i = 0 THEN Throw(s, "Could not map 5th PC scale")
       ELSE Remark([s EXCEPT
               !.currentPipb = Some(multipliedPay),
               !.currentGradePay = Some(gradePay),
               !.currentPay = multipliedPay + gradePay,
               !.currentCommission = 6,
               !.fixation6thPC = Some([basicPay2005 |-> basicPay2005,
                                       multipliedPay |-> multipliedPay,
                                       initialPayInPayBand |-> multipliedPay,
                                       initialGradePay |-> gradePay,
                                       initialRevisedBasicPay |-> multipliedPay])],
             "Pay fixed in 6th Pay Commission")

\* FixTo6thPC carrying on in the 5th PC when the scale has no 6th-PC entry
FixTo6thPC_StaysIn5thPC(s) ==
    LET basicPay2005 == s.currentPay
        multipliedPay == RoundFitment6(basicPay2005)
        Is(sc) == Some(sc.scale) = s.currentScaleString
        i == FirstIndex(PAY_SCALES_6TH_PC, Is)
        gradePay == PAY_SCALES_6TH_PC[i].gradePay
    IN IF i = 0 THEN s
       ELSE Remark([s EXCEPT
               !.currentPipb = Some(multipliedPay),
               !.currentGradePay = Some(gradePay),
               !.currentPay = multipliedPay + gradePay,
               !.currentCommission = 6,
               !.fixation6thPC = Some([basicPay2005 |-> basicPay2005,
                                       multipliedPay |-> multipliedPay,
                                       initialPayInPayBand |-> multipliedPay,
                                       initialGradePay |-> gradePay,
                                       initialRevisedBasicPay |-> multipliedPay + gradePay])],
             "Pay fixed in 6th Pay Commission")

FixTo6thPC(s) ==
    LET basicPay2005 == s.currentPay
        multipliedPay == RoundFitment6(basicPay2005)
        Is(sc) == Some(sc.scale) = s.currentScaleString
        i == FirstIndex(PAY_SCALES_6TH_PC, Is)
        gradePay == PAY_SCALES_6TH_PC[i].gradePay
    IN IF i = 0 THEN Throw(s, "Could not map 5th PC scale")
       ELSE Remark([s EXCEPT
               !.currentPipb = Some(multipliedPay),
               !.currentGradePay = Some(gradePay),
               !.currentPay = multipliedPay + gradePay,
               !.currentCommission = 6,
               !.fixation6thPC = Some([basicPay2005 |-> basicPay2005,
                                       multipliedPay |-> multipliedPay,
                                       initialPayInPayBand |-> multipliedPay,
                                       initialGradePay |-> gradePay,
                                       initialRevisedBasicPay |-> multipliedPay + gradePay])],
             "Pay fixed in 6th Pay Commission")

\* FixTo7thPC leaving the pay in pay band and the grade pay in place
FixTo7thPC_KeepsPayBand(s) ==
    LET oldBasicPay == s.currentPay
        multipliedPay == RoundFitment7(oldBasicPay)
        gp == Val(s.currentGradePay)
        levelFor7PC == GRADE_PAY_TO_LEVEL[gp]
        newPay == findPayInMatrix(multipliedPay, levelFor7PC)
    IN IF gp \notin DOMAIN GRADE_PAY_TO_LEVEL
          THEN Throw(s, "Could not find a level for Grade Pay")
       ELSE IF levelFor7PC \notin DOMAIN PAY_MATRIX
          THEN Throw(s, "Invalid level")
       ELSE Remark(Remark([s EXCEPT
               !.currentLevel = levelFor7PC,
               !.currentPay = newPay,
               !.currentCommission = 7,
               !.fixation7thPC = Some([oldBasicPay |-> oldBasicPay,
                                       multipliedPay |-> multipliedPay,
                                       initialRevisedPay |-> newPay,
                                       level |-> levelFor7PC])],
             "Pay fixed in 7th Pay Commission"),
             "CCA abolished and merged with Basic Pay in 7th PC.")

FixTo7thPC(s) ==
    LET oldBasicPay == s.currentPay
        multipliedPay == RoundFitment7(oldBasicPay)
        gp == Val(s.currentGradePay)
        levelFor7PC == GRADE_PAY_TO_LEVEL[gp]
        newPay == findPayInMatrix(multipliedPay, levelFor7PC)
    IN IF gp \notin DOMAIN GRADE_PAY_TO_LEVEL
          THEN Throw(s, "Could not find a level for Grade Pay")
       ELSE IF levelFor7PC \notin DOMAIN PAY_MATRIX
          THEN Throw(s, "Invalid level")
       ELSE Remark(Remark([s EXCEPT
               !.currentLevel = levelFor7PC,
               !.currentPay = newPay,
               !.currentPipb = None,
               !.currentGradePay = None,
               !.currentCommission = 7,
               !.fixation7thPC = Some([oldBasicPay |-> oldBasicPay,
                                       multipliedPay |-> multipliedPay,
                                       initialRevisedPay |-> newPay,
                                       level |-> levelFor7PC])],
             "Pay fixed in 7th Pay Commission"),
             "CCA abolished and merged with Basic Pay in 7th PC.")

\* a DA entry applies when it is of the current commission, or of the
\* commission-5 series while the commission is below 6
DaApplies(daData, currentCommission) ==
    daData.commission = currentCommission
    \/ (currentCommission < 6 /\ daData.commission = 5)

ApplyDaChange(s, data, daData) ==
    IF DaApplies(daData, s.currentCommission)
       THEN LET t == [s EXCEPT !.currentDaRate =
                         IF IsSome(data.daOverride) THEN Val(data.daOverride)
                         ELSE daData.rate]
            IN IF IsSome(data.daOverride) /\ Val(data.daOverride) # 0
                  THEN Remark(t, "DA Override applied.")
                  ELSE t
       ELSE s

\* ApplyAccountTestPass noting the pass without raising the pending flag
ApplyAccountTestPass_NotPending(s) == Remark(s, "Account Test Passed")

ApplyAccountTestPass(s) ==
    Remark([s EXCEPT !.accountTestIncrementPending = TRUE], "Account Test Passed")

\* one increment in the structure of the current commission
IncrementOnce(s) ==
    IF s.currentCommission < 6
       THEN [s EXCEPT !.currentPay =
                getIncrementInScale(s.currentPay, Val(s.currentScaleString), 1)]
       ELSE LET r == getIncrement(s.currentPay, s.currentLevel, 1,
                                  s.currentCommission, s.currentGradePay)
            IN [s EXCEPT !.currentPay = r.newPay,
                         !.currentPipb = IF IsSome(r.newPipb) THEN r.newPipb ELSE @]

\* ApplyGrade counting the grade and not the total
ApplyGrade_NotTotalled(s, event) ==
    LET oldPay == s.currentPay
        isSelection == event.type = "SELECTION_GRADE"
        eventName == IF isSelection THEN "SELECTION GRADE" ELSE "SPECIAL GRADE"
        ordinary == Val(s.currentOrdinaryScaleString)
        mapped == ordinary \in DOMAIN FIFTH_PC_SG_SP_GRADE_MAPPING
        newScaleString == IF isSelection
                             THEN FIFTH_PC_SG_SP_GRADE_MAPPING[ordinary].selection
                             ELSE FIFTH_PC_SG_SP_GRADE_MAPPING[ordinary].special
        steps == IF event.applyFixation THEN 2 ELSE 1
        r == getIncrement(oldPay, s.currentLevel, steps, s.currentCommission,
                          s.currentGradePay)
        paid ==
            IF s.currentCommission < 6
               THEN IF s.currentCommission = 5 /\ event.applyFixation
                       /\ IsSome(s.currentOrdinaryScaleString)
                       THEN IF mapped
                               THEN Remark([s EXCEPT
                                       !.currentPay = findNextHigherStageInScale(oldPay, newScaleString),
                                       !.currentScaleString = Some(newScaleString)],
                                     eventName \o ": Pay moved to scale")
                               ELSE Remark([s EXCEPT !.currentPay =
                                       getIncrementInScale(oldPay, Val(s.currentScaleString), 1)],
                                     eventName \o " (1 increment) applied. No scale mapping")
                    ELSE IF IsSome(s.currentScaleString)
                       THEN Remark([s EXCEPT !.currentPay =
                               getIncrementInScale(oldPay, Val(s.currentScaleString), 1)],
                             eventName \o " (1 increment) applied.")
                    ELSE s
               ELSE Remark([s EXCEPT
                       !.currentPay = r.newPay,
                       !.currentPipb = IF IsSome(r.newPipb) THEN r.newPipb ELSE @],
                     IF steps > 1 THEN eventName \o " (2 increments) applied."
                     ELSE eventName \o " (1 increment) applied.")
    IN [paid EXCEPT
          !.didIncrementThisMonth = TRUE,
          !.incrementAnalysis.selectionGrade = IF isSelection THEN @ + 1 ELSE @,
          !.incrementAnalysis.specialGrade = IF isSelection THEN @ ELSE @ + 1]

\* selection grade and special grade
ApplyGrade(s, event) ==
    LET oldPay == s.currentPay
        isSelection == event.type = "SELECTION_GRADE"
        eventName == IF isSelection THEN "SELECTION GRADE" ELSE "SPECIAL GRADE"
        ordinary == Val(s.currentOrdinaryScaleString)
        mapped == ordinary \in DOMAIN FIFTH_PC_SG_SP_GRADE_MAPPING
        newScaleString == IF isSelection
                             THEN FIFTH_PC_SG_SP_GRADE_MAPPING[ordinary].selection
                             ELSE FIFTH_PC_SG_SP_GRADE_MAPPING[ordinary].special
        steps == IF event.applyFixation THEN 2 ELSE 1
        r == getIncrement(oldPay, s.currentLevel, steps, s.currentCommission,
                          s.currentGradePay)
        paid ==
            IF s.currentCommission < 6
               THEN IF s.currentCommission = 5 /\ event.applyFixation
                       /\ IsSome(s.currentOrdinaryScaleString)
                       THEN IF mapped
                               THEN Remark([s EXCEPT
                                       !.currentPay = findNextHigherStageInScale(oldPay, newScaleString),
                                       !.currentScaleString = Some(newScaleString)],
                                     eventName \o ": Pay moved to scale")
                               ELSE Remark([s EXCEPT !.currentPay =
                                       getIncrementInScale(oldPay, Val(s.currentScaleString), 1)],
                                     eventName \o " (1 increment) applied. No scale mapping")
                    ELSE IF IsSome(s.currentScaleString)
                       THEN Remark([s EXCEPT !.currentPay =
                               getIncrementInScale(oldPay, Val(s.currentScaleString), 1)],
                             eventName \o " (1 increment) applied.")
                    ELSE s
               ELSE Remark([s EXCEPT
                       !.currentPay = r.newPay,
                       !.currentPipb = IF IsSome(r.newPipb) THEN r.newPipb ELSE @],
                     IF steps > 1 THEN eventName \o " (2 increments) applied."
                     ELSE eventName \o " (1 increment) applied.")
    IN [paid EXCEPT
          !.didIncrementThisMonth = TRUE,
          !.incrementAnalysis.selectionGrade = IF isSelection THEN @ + 1 ELSE @,
          !.incrementAnalysis.specialGrade = IF isSelection THEN @ ELSE @ + 1,
          !.incrementAnalysis.total = @ + 1]

\* ApplyPromotion fixing the pay as it stood, without the notional increment
ApplyPromotion_NoNotionalIncrement(s, promoData) ==
    LET oldPay == s.currentPay
        noted == [Remark(s, "Promotion") EXCEPT
                    !.incrementAnalysis.promotion = @ + 1,
                    !.incrementAnalysis.total = @ + 1]
        notional7 == oldPay
        newLevel == Val(promoData.level)
        notional6 == [newPay |-> oldPay, newPipb |-> s.currentPipb]
        IsGp(sc) == Some(sc.gradePay) = promoData.gradePay
        i == FirstIndex(PAY_SCALES_6TH_PC, IsGp)
        newGradePay == PAY_SCALES_6TH_PC[i].gradePay
        newPipb == Max(Val(notional6.newPipb), PAY_BAND_LIMITS_6TH_PC[newGradePay].min)
        fixed ==
            IF s.currentCommission = 7
               THEN IF ~IsSome(promoData.level) \/ newLevel \notin DOMAIN PAY_MATRIX
                       THEN Throw(noted, "Invalid level for promotion")
                       ELSE Remark([noted EXCEPT
                               !.currentPay = findPayInMatrix(notional7, newLevel),
                               !.currentLevel = newLevel],
                             "Pay fixed on promotion")
            ELSE IF s.currentCommission = 6
               THEN IF i = 0
                       THEN Throw(noted, "Invalid Grade Pay for promotion")
                    ELSE IF newGradePay \notin DOMAIN PAY_BAND_LIMITS_6TH_PC
                       THEN Throw(noted, "TypeError")
                    ELSE Remark([noted EXCEPT
                               !.currentGradePay = Some(newGradePay),
                               !.currentPipb = Some(newPipb),
                               !.currentPay = newPipb + newGradePay],
                             "Pay fixed on promotion")
            ELSE Remark([noted EXCEPT !.currentPay =
                            getIncrementInScale(oldPay, Val(s.currentScaleString), 1)],
                        "Promotion logic for pre-2006 is simplified")
    IN IF fixed.pc = "error" THEN fixed
       ELSE [fixed EXCEPT !.didIncrementThisMonth = TRUE]

ApplyPromotion(s, promoData) ==
    LET oldPay == s.currentPay
        noted == [Remark(s, "Promotion") EXCEPT
                    !.incrementAnalysis.promotion = @ + 1,
                    !.incrementAnalysis.total = @ + 1]
        notional7 == getIncrement(oldPay, s.currentLevel, 1, 7, None).newPay
        newLevel == Val(promoData.level)
        notional6 == getIncrement(oldPay, 0, 1, 6, s.currentGradePay)
        IsGp(sc) == Some(sc.gradePay) = promoData.gradePay
        i == FirstIndex(PAY_SCALES_6TH_PC, IsGp)
        newGradePay == PAY_SCALES_6TH_PC[i].gradePay
        newPipb == Max(Val(notional6.newPipb), PAY_BAND_LIMITS_6TH_PC[newGradePay].min)
        fixed ==
            IF s.currentCommission = 7
               THEN IF ~IsSome(promoData.level) \/ newLevel \notin DOMAIN PAY_MATRIX
                       THEN Throw(noted, "Invalid level for promotion")
                       ELSE Remark([noted EXCEPT
                               !.currentPay = findPayInMatrix(notional7, newLevel),
                               !.currentLevel = newLevel],
                             "Pay fixed on promotion")
            ELSE IF s.currentCommission = 6
               THEN IF i = 0
                       THEN Throw(noted, "Invalid Grade Pay for promotion")
                    ELSE IF newGradePay \notin DOMAIN PAY_BAND_LIMITS_6TH_PC
                       THEN Throw(noted, "TypeError")
                    ELSE Remark([noted EXCEPT
                               !.currentGradePay = Some(newGradePay),
                               !.currentPipb = Some(newPipb),
                               !.currentPay = newPipb + newGradePay],
                             "Pay fixed on promotion")
            ELSE Remark([noted EXCEPT !.currentPay =
                            getIncrementInScale(oldPay, Val(s.currentScaleString), 1)],
                        "Promotion logic for pre-2006 is simplified")
    IN IF fixed.pc = "error" THEN fixed
       ELSE [fixed EXCEPT !.didIncrementThisMonth = TRUE]

\* ApplyPayRevision2010 entering the revision in appliedRevisions
ApplyPayRevision2010_Recorded(s) ==
    [s EXCEPT !.appliedRevisions =
                 Append(@, [description |-> "Pay revision 2010",
                            date |-> parseDateUTC(2010, 8, 1)])]

\* the handler of a pay revision of 2010 for the current post: its body is
\* empty
ApplyPayRevision2010(s) == s

\* the body of the event loop for one event; a thrown error ends the run
ApplyEvent(s, data, event) ==
    LET t == event.type IN
    IF s.pc = "error" THEN s
    ELSE IF t = "PAY_COMMISSION_4" /\ s.currentCommission = 3 THEN FixTo4thPC(s)
    ELSE IF t = "PAY_COMMISSION_5" /\ s.currentCommission = 4 THEN FixTo5thPC(s)
    ELSE IF t = "PAY_COMMISSION_6" /\ s.currentCommission = 5 THEN FixTo6thPC(s)
    ELSE IF t = "PAY_COMMISSION_7" /\ s.currentCommission = 6 THEN FixTo7thPC(s)
    ELSE IF t = "DA_CHANGE" THEN ApplyDaChange(s, data, Val(event.da))
    ELSE IF t = "ACCOUNT_TEST_PASS" THEN ApplyAccountTestPass(s)
    ELSE IF t = "PAY_REVISION_2010" /\ s.currentCommission = 6
            /\ event.postId = s.currentPostId
       THEN ApplyPayRevision2010(s)
    ELSE IF t \in {"SELECTION_GRADE", "SPECIAL_GRADE"} /\ ~s.didIncrementThisMonth
       THEN ApplyGrade(s, event)
    ELSE IF t = "PROMOTION" /\ ~s.didIncrementThisMonth
       THEN ApplyPromotion(s, Val(event.promo))
    ELSE s

RECURSIVE ApplyEvents(_, _, _)
ApplyEvents(s, data, events) ==
    IF Len(events) = 0 THEN s
    ELSE ApplyEvents(ApplyEvent(s, data, Head(events)), data, Tail(events))

\* the schedule change in force at currentDate: the latest one effective on or
\* before it, the last of the list if there is none
ApplicableChange(data, currentDate) ==
    LET changes == sortedIncrementChanges(data)
        Effective(c) == Val(c.effectiveDate) <= currentDate
        past == SelectSeq(changes, Effective)
    IN IF Len(past) > 0 THEN past[Len(past)] ELSE changes[Len(changes)]

\* NextIncrementDate one year after the month of the grant
NextIncrementDate_FromGrantMonth(data, currentDate, next) ==
    DateUTC(getUTCFullYear(currentDate) + 1, getUTCMonth(currentDate), 1)

\* the scheduled date after a grant on the scheduled date next
NextIncrementDate(data, currentDate, next) ==
    setUTCMonth(setUTCFullYear(next, getUTCFullYear(next) + 1),
                MonthIndex(ApplicableChange(data, currentDate).incrementMonth))

\* AnnualIncrement granted whatever was applied earlier in the month
AnnualIncrement_Unguarded(s, data) ==
    LET next == Val(s.nextScheduledIncrementDate)
        eligibility == calculateProbationIncrementEligibility(
                           data, s.incrementsGranted + 1, next)
        regular == [Remark(IncrementOnce(s), "Annual Increment applied") EXCEPT
                      !.incrementsGranted = @ + 1,
                      !.incrementAnalysis.regular = @ + 1,
                      !.incrementAnalysis.total = @ + 1]
        tested == IF regular.accountTestIncrementPending
                     THEN [Remark(IncrementOnce(regular),
                                  "Additional increment for passing Account Test applied.")
                             EXCEPT !.accountTestIncrementPending = FALSE,
                                    !.incrementAnalysis.accountTest = @ + 1,
                                    !.incrementAnalysis.total = @ + 1]
                     ELSE regular
    IN IF s.pc = "error" THEN s
       ELSE IF IsSome(s.nextScheduledIncrementDate) /\ s.currentDate >= next
          THEN IF eligibility.eligible /\ s.currentDate >= eligibility.effectiveDate
                  THEN [tested EXCEPT
                          !.didIncrementThisMonth = TRUE,
                          !.nextScheduledIncrementDate =
                              Some(NextIncrementDate(data, s.currentDate, next))]
               ELSE IF ~eligibility.eligible
                  THEN Remark(s, "Annual Increment withheld. Reason: "
                                   \o eligibility.remarks)
               ELSE s
       ELSE s

\* AnnualIncrement moving the scheduled date on when the increment is withheld
AnnualIncrement_WithheldMovesOn(s, data) ==
    LET next == Val(s.nextScheduledIncrementDate)
        eligibility == calculateProbationIncrementEligibility(
                           data, s.incrementsGranted + 1, next)
        regular == [Remark(IncrementOnce(s), "Annual Increment applied") EXCEPT
                      !.incrementsGranted = @ + 1,
                      !.incrementAnalysis.regular = @ + 1,
                      !.incrementAnalysis.total = @ + 1]
        tested == IF regular.accountTestIncrementPending
                     THEN [Remark(IncrementOnce(regular),
                                  "Additional increment for passing Account Test applied.")
                             EXCEPT !.accountTestIncrementPending = FALSE,
                                    !.incrementAnalysis.accountTest = @ + 1,
                                    !.incrementAnalysis.total = @ + 1]
                     ELSE regular
    IN IF s.pc = "error" THEN s
       ELSE IF IsSome(s.nextScheduledIncrementDate) /\ s.currentDate >= next
               /\ ~s.didIncrementThisMonth
          THEN IF eligibility.eligible /\ s.currentDate >= eligibility.effectiveDate
                  THEN [tested EXCEPT
                          !.didIncrementThisMonth = TRUE,
                          !.nextScheduledIncrementDate =
                              Some(NextIncrementDate(data, s.currentDate, next))]
               ELSE IF ~eligibility.eligible
                  THEN [Remark(s, "Annual Increment withheld. Reason: "
                                    \o eligibility.remarks)
                          EXCEPT !.nextScheduledIncrementDate =
                                     Some(NextIncrementDate(data, s.currentDate, next))]
               ELSE s
       ELSE s

\* the annual increment of the month
AnnualIncrement(s, data) ==
    LET next == Val(s.nextScheduledIncrementDate)
        eligibility == calculateProbationIncrementEligibility(
                           data, s.incrementsGranted + 1, next)
        regular == [Remark(IncrementOnce(s), "Annual Increment applied") EXCEPT
                      !.incrementsGranted = @ + 1,
                      !.incrementAnalysis.regular = @ + 1,
                      !.incrementAnalysis.total = @ + 1]
        tested == IF regular.accountTestIncrementPending
                     THEN [Remark(IncrementOnce(regular),
                                  "Additional increment for passing Account Test applied.")
                             EXCEPT !.accountTestIncrementPending = FALSE,
                                    !.incrementAnalysis.accountTest = @ + 1,
                                    !.incrementAnalysis.total = @ + 1]
                     ELSE regular
    IN IF s.pc = "error" THEN s
       ELSE IF IsSome(s.nextScheduledIncrementDate) /\ s.currentDate >= next
               /\ ~s.didIncrementThisMonth
          THEN IF eligibility.eligible /\ s.currentDate >= eligibility.effectiveDate
                  THEN [tested EXCEPT
                          !.didIncrementThisMonth = TRUE,
                          !.nextScheduledIncrementDate =
                              Some(NextIncrementDate(data, s.currentDate, next))]
               ELSE IF ~eligibility.eligible
                  THEN Remark(s, "Annual Increment withheld. Reason: "
                                   \o eligibility.remarks)
               ELSE s
       ELSE s

\* StoreMonth with the professional tax listed and left out of the total
StoreMonth_TaxNotTotalled(s, data) ==
    LET daAmount == (s.currentPay * s.currentDaRate * 2 + 100) \div 200
        hra == getHra(s.currentPay, mapCityClassToGrade(data.cityClass), s.currentDate)
        cca == IF s.currentCommission >= 7 THEN 0 ELSE CCA_RATES[data.cityClass]
        medicalAllowance == data.medicalAllowance
        grossPay == s.currentPay + daAmount + hra + cca + medicalAllowance
        cpsGpfAmount == ((s.currentPay + daAmount) * data.cpsGpfContributionRate * 2 + 100)
                            \div 200
        deductions ==
            << [name |-> "CPS/GPF", amount |-> cpsGpfAmount] >>
            \o (IF data.professionalTax > 0
                   THEN << [name |-> "Professional Tax", amount |-> data.professionalTax] >>
                   ELSE <<>>)
            \o (IF data.gisContribution > 0
                   THEN << [name |-> "GIS", amount |-> data.gisContribution] >>
                   ELSE <<>>)
        totalDeductions == cpsGpfAmount
                           + (IF data.gisContribution > 0 THEN data.gisContribution ELSE 0)
    IN IF s.pc = "error" THEN s
       ELSE IF s.currentDate >= Val(data.calculationStartDate)
          THEN [s EXCEPT !.periods = Append(@,
                  [year |-> getUTCFullYear(s.currentDate),
                   month |-> getUTCMonth(s.currentDate),
                   basicPay |-> s.currentPay,
                   daRate |-> s.currentDaRate,
                   daAmount |-> daAmount,
                   hra |-> hra,
                   cca |-> cca,
                   medicalAllowance |-> medicalAllowance,
                   grossPay |-> grossPay,
                   deductions |-> deductions,
                   totalDeductions |-> totalDeductions,
                   netPay |-> grossPay - totalDeductions,
                   remarks |-> s.remarks,
                   commission |-> s.currentCommission,
                   payInPayBand |-> s.currentPipb,
                   gradePay |-> s.currentGradePay])]
       ELSE s

\* the pay record of the month, stored when the month is in the window
StoreMonth(s, data) ==
    LET daAmount == (s.currentPay * s.currentDaRate * 2 + 100) \div 200
        hra == getHra(s.currentPay, mapCityClassToGrade(data.cityClass), s.currentDate)
        cca == IF s.currentCommission >= 7 THEN 0 ELSE CCA_RATES[data.cityClass]
        medicalAllowance == data.medicalAllowance
        grossPay == s.currentPay + daAmount + hra + cca + medicalAllowance
        cpsGpfAmount == ((s.currentPay + daAmount) * data.cpsGpfContributionRate * 2 + 100)
                            \div 200
        deductions ==
            << [name |-> "CPS/GPF", amount |-> cpsGpfAmount] >>
            \o (IF data.professionalTax > 0
                   THEN << [name |-> "Professional Tax", amount |-> data.professionalTax] >>
                   ELSE <<>>)
            \o (IF data.gisContribution > 0
                   THEN << [name |-> "GIS", amount |-> data.gisContribution] >>
                   ELSE <<>>)
        totalDeductions == cpsGpfAmount
                           + (IF data.professionalTax > 0 THEN data.professionalTax ELSE 0)
                           + (IF data.gisContribution > 0 THEN data.gisContribution ELSE 0)
    IN IF s.pc = "error" THEN s
       ELSE IF s.currentDate >= Val(data.calculationStartDate)
          THEN [s EXCEPT !.periods = Append(@,
                  [year |-> getUTCFullYear(s.currentDate),
                   month |-> getUTCMonth(s.currentDate),
                   basicPay |-> s.currentPay,
                   daRate |-> s.currentDaRate,
                   daAmount |-> daAmount,
                   hra |-> hra,
                   cca |-> cca,
                   medicalAllowance |-> medicalAllowance,
                   grossPay |-> grossPay,
                   deductions |-> deductions,
                   totalDeductions |-> totalDeductions,
                   netPay |-> grossPay - totalDeductions,
                   remarks |-> s.remarks,
                   commission |-> s.currentCommission,
                   payInPayBand |-> s.currentPipb,
                   gradePay |-> s.currentGradePay])]
       ELSE s

\* MonthBody leaving the current date where it was
MonthBody_SameDate(s, data) ==
    LET fresh == [s EXCEPT !.remarks = <<>>, !.didIncrementThisMonth = FALSE]
        afterEvents == ApplyEvents(fresh, data, monthEvents(data, s.currentDate))
        stored == StoreMonth(AnnualIncrement(afterEvents, data), data)
    IN IF stored.pc = "error" THEN stored
       ELSE [stored EXCEPT !.currentDate = s.currentDate]

\* one iteration of the monthly loop
MonthBody(s, data) ==
    LET fresh == [s EXCEPT !.remarks = <<>>, !.didIncrementThisMonth = FALSE]
        afterEvents == ApplyEvents(fresh, data, monthEvents(data, s.currentDate))
        stored == StoreMonth(AnnualIncrement(afterEvents, data), data)
    IN IF stored.pc = "error" THEN stored
       ELSE [stored EXCEPT !.currentDate =
                setUTCMonth(s.currentDate, getUTCMonth(s.currentDate) + 1)]

\* ------------------------------------------------------ result assembly

\* the periods grouped by year, in the order the years were first stored
RECURSIVE GroupByYear(_)
GroupByYear(periods) ==
    IF Len(periods) = 0 THEN <<>>
    ELSE LET year == periods[1].year
             Same(p) == p.year = year
             Other(p) == p.year # year
         IN << [year |-> year, periods |-> SelectSeq(periods, Same)] >>
            \o GroupByYear(SelectSeq(periods, Other))

\* toLocaleDateString('en-GB', UTC): day, month, year
FormatDate(t) == <<getUTCDate(t), getUTCMonth(t) + 1, getUTCFullYear(t)>>

FormatOptionalDate(o) == IF IsSome(o) THEN Some(FormatDate(Val(o))) ELSE None

\* the input fields the result carries back: the rest of the destructured
\* input, and the dates formatted
EmployeeDetails(data) ==
    [dateOfJoining |-> FormatDate(Val(data.dateOfJoining)),
     dateOfRelief |-> FormatOptionalDate(data.dateOfRelief),
     selectionGradeDate |-> FormatOptionalDate(data.selectionGradeDate),
     specialGradeDate |-> FormatOptionalDate(data.specialGradeDate),
     promotions |-> [k \in DOMAIN data.promotions |->
                       FormatOptionalDate(data.promotions[k].date)],
     accountTestPasses |-> [k \in DOMAIN data.accountTestPasses |->
                              FormatOptionalDate(data.accountTestPasses[k].passDate)],
     joiningPay |-> data.joiningPay,
     joiningScaleId |-> data.joiningScaleId,
     joiningLevel |-> data.joiningLevel,
     daOverride |-> data.daOverride,
     medicalAllowance |-> data.medicalAllowance,
     cpsGpfContributionRate |-> data.cpsGpfContributionRate,
     professionalTax |-> data.professionalTax,
     gisContribution |-> data.gisContribution,
     probationPeriodType |-> data.probationPeriodType,
     probationPeriodMonths |-> data.probationPeriodMonths,
     probationStartDate |-> data.probationStartDate,
     hasTestRequirement |-> data.hasTestRequirement,
     testStatus |-> data.testStatus,
     testPassedDate |-> data.testPassedDate]

PayrollResult(s, data) ==
    [employeeDetails |-> EmployeeDetails(data)
                           @@ [payRevisions |-> s.appliedRevisions],
     fixation4thPC |-> s.fixation4thPC,
     fixation5thPC |-> s.fixation5thPC,
     fixation6thPC |-> s.fixation6thPC,
     fixation7thPC |-> s.fixation7thPC,
     yearlyCalculations |-> GroupByYear(s.periods),
     appliedRevisions |-> s.appliedRevisions,
     incrementAnalysis |-> s.incrementAnalysis]

\* ------------------------------------------------------------- inputs

\* a date n months after the date t (day of month kept, overflow carried)
AddMonths(t, n) == setUTCMonth(t, getUTCMonth(t) + n)

\* the input of an employee with no career events, simulated for the given
\* number of months from the date of joining
BaseInput(doj, months) ==
    [dateOfJoining |-> Some(doj),
     calculationStartDate |-> Some(doj),
     calculationEndDate |-> Some(DateUTC(getUTCFullYear(doj),
                                         getUTCMonth(doj) + months, 1)),
     dateOfRelief |-> None,
     joiningPostId |-> Some("custom"),
     joiningPay |-> None, joiningScaleId |-> None, joiningLevel |-> None,
     selectionGradeDate |-> None, selectionGradeTwoIncrements |-> TRUE,
     specialGradeDate |-> None, specialGradeTwoIncrements |-> TRUE,
     promotions |-> <<>>,
     annualIncrementChanges |-> << [effectiveDate |-> Some(doj),
                                    incrementMonth |-> "jul"] >>,
     breaksInService |-> <<>>,
     accountTestPasses |-> <<>>,
     incrementEligibilityMonths |-> Some(6),
     cityClass |-> "C", daOverride |-> None,
     medicalAllowance |-> 300, cpsGpfContributionRate |-> 10,
     professionalTax |-> 200, gisContribution |-> 60,
     probationPeriodType |-> "2 Years", probationPeriodMonths |-> None,
     probationStartDate |-> Some(doj), hasTestRequirement |-> FALSE,
     testStatus |-> "Not Appeared", testPassedDate |-> None]

\* The months simulated from the date of joining.
RunMonths == 14

OneChange(doj, month) == << [effectiveDate |-> Some(doj), incrementMonth |-> month] >>

OnePromotion(date, gradePay, level) ==
    << [date |-> Some(date), gradePay |-> gradePay, level |-> level] >>

OneTest(date) == << [passDate |-> Some(date)] >>

Break(start, end) == [startDate |-> Some(start), endDate |-> Some(end)]

\* joiners of July 2015 in the 6th PC, simulated across the 6 -> 7 transition
SixthPcJoiners ==
    LET doj == parseDateUTC(2015, 7, 1) IN
    { [BaseInput(doj, RunMonths) EXCEPT
          !.joiningPay = Some(scalePay[2]),
          !.joiningScaleId = Some(scalePay[1]),
          !.selectionGradeDate = grade[1],
          !.selectionGradeTwoIncrements = grade[2],
          !.promotions = promo,
          !.annualIncrementChanges = OneChange(doj, month),
          !.accountTestPasses = tests] :
        scalePay \in {<<"6pc-a", 4440>>, <<"6pc-a", 7400>>, <<"6pc-sel", 4000>>,
                      <<"6pc-sel", 7500>>, <<"6pc-b", 9300>>, <<"6pc-b", 34700>>},
        grade \in {<<None, TRUE>>,
                   <<Some(parseDateUTC(2015, 10, 1)), TRUE>>,
                   <<Some(parseDateUTC(2016, 1, 1)), TRUE>>,
                   <<Some(parseDateUTC(2016, 1, 1)), FALSE>>,
                   <<Some(parseDateUTC(2016, 7, 1)), TRUE>>},
        promo \in {<<>>,
                   OnePromotion(parseDateUTC(2015, 11, 1), Some(4200), None),
                   OnePromotion(parseDateUTC(2015, 11, 1), None, Some(8)),
                   OnePromotion(parseDateUTC(2016, 1, 1), None, Some(8)),
                   OnePromotion(parseDateUTC(2016, 3, 1), None, Some(2)),
                   OnePromotion(parseDateUTC(2016, 3, 1), Some(4200), None)},
        month \in {"jan", "jul"},
        tests \in {<<>>, OneTest(parseDateUTC(2015, 9, 1))} }

\* joiners in the 7th PC
SeventhPcJoiners ==
    LET doj == parseDateUTC(2016, 2, 1) IN
    { [BaseInput(doj, RunMonths) EXCEPT
          !.joiningLevel = level,
          !.selectionGradeDate = grade[1],
          !.selectionGradeTwoIncrements = grade[2],
          !.specialGradeDate = special,
          !.promotions = promo,
          !.incrementEligibilityMonths = Some(0),
          !.annualIncrementChanges = OneChange(doj, month),
          !.accountTestPasses = tests] :
        level \in {Some(1), Some(2), Some(8), Some(3), None},
        grade \in {<<None, TRUE>>,
                   <<Some(parseDateUTC(2016, 4, 1)), TRUE>>,
                   <<Some(parseDateUTC(2016, 7, 1)), FALSE>>},
        special \in {None, Some(parseDateUTC(2016, 4, 1)),
                     Some(parseDateUTC(2016, 10, 1))},
        promo \in {<<>>,
                   OnePromotion(parseDateUTC(2016, 5, 1), None, Some(8)),
                   OnePromotion(parseDateUTC(2016, 7, 1), None, Some(2)),
                   OnePromotion(parseDateUTC(2016, 5, 1), None, Some(12))},
        month \in {"apr", "jul"},
        tests \in {<<>>, OneTest(parseDateUTC(2016, 3, 1))} }

\* joiners of the earlier commissions, simulated across the next transition
EarlierJoiners ==
    { [BaseInput(parseDateUTC(era[1], 7, 1), RunMonths) EXCEPT
          !.joiningPay = Some(era[3]),
          !.joiningScaleId = Some(era[2]),
          !.selectionGradeDate = IF grade[1] THEN Some(parseDateUTC(era[1], 10, 1))
                                 ELSE None,
          !.selectionGradeTwoIncrements = grade[2],
          !.specialGradeDate = IF special THEN Some(parseDateUTC(era[1] + 1, 1, 1))
                               ELSE None,
          !.promotions = IF promoted
                            THEN OnePromotion(parseDateUTC(era[1], 9, 1), None, None)
                            ELSE <<>>,
          !.annualIncrementChanges =
              OneChange(parseDateUTC(era[1], 7, 1), month)] :
        era \in {<<1985, "3pc-a", 600>>, <<1985, "3pc-a", 880>>,
                 <<1985, "3pc-a", 950>>,
                 <<1995, "4pc-a", 1500>>, <<1995, "4pc-a", 1700>>,
                 <<1995, "4pc-a", 2100>>,
                 <<2005, "5pc-a", 2550>>, <<2005, "5pc-a", 3140>>,
                 <<2005, "5pc-sel", 2610>>, <<2005, "5pc-b", 8000>>,
                 <<2005, "5pc-b", 8200>>},
        grade \in {<<FALSE, TRUE>>, <<TRUE, TRUE>>, <<TRUE, FALSE>>},
        special \in BOOLEAN,
        promoted \in BOOLEAN,
        month \in {"jan", "jul"} }

\* a career through every commission
CareerJoiners ==
    { [BaseInput(parseDateUTC(1985, 7, 1), 12 * 31 + 6 + RunMonths) EXCEPT
          !.joiningPay = Some(600),
          !.joiningScaleId = Some("3pc-a"),
          !.calculationStartDate = Some(start)] :
        start \in {parseDateUTC(1985, 7, 1), parseDateUTC(2005, 7, 1)} }

\* dates of joining on every kind of day of the month, with breaks in
\* service, schedules and eligibility periods
CalendarDates ==
    { parseDateUTC(2016, m, d) : m \in 1..12, d \in {1, 15, 29, 30, 31} }
    \ ({ parseDateUTC(2016, m, 31) : m \in {2, 4, 6, 9, 11} }
         \cup { parseDateUTC(2016, 2, 30) })

CalendarJoiners ==
    { [BaseInput(doj, RunMonths) EXCEPT
          !.joiningLevel = Some(1),
          !.breaksInService = breaks,
          !.annualIncrementChanges =
              IF schedule = "jul-jan"
                 THEN << [effectiveDate |-> Some(doj), incrementMonth |-> "jul"],
                         [effectiveDate |-> Some(AddMonths(doj, 9)),
                          incrementMonth |-> "jan"] >>
                 ELSE OneChange(doj, schedule),
          !.incrementEligibilityMonths = months] :
        doj \in CalendarDates,
        breaks \in {<<>>,
                    << Break(parseDateUTC(2016, 3, 1), parseDateUTC(2016, 4, 30)) >>,
                    << Break(parseDateUTC(2016, 4, 30), parseDateUTC(2016, 3, 1)) >>,
                    << Break(parseDateUTC(2016, 3, 1), parseDateUTC(2016, 4, 30)),
                       Break(parseDateUTC(2016, 6, 1), parseDateUTC(2016, 7, 2)) >>},
        schedule \in {"jan", "apr", "jul", "oct", "jul-jan"},
        months \in {None, Some(0), Some(6)} }

\* the DA override
OverrideJoiners ==
    { [BaseInput(doj, RunMonths) EXCEPT
          !.joiningPay = Some(9300),
          !.joiningScaleId = Some("6pc-b"),
          !.joiningLevel = Some(8),
          !.daOverride = override] :
        doj \in {parseDateUTC(2015, 7, 1), parseDateUTC(2015, 8, 1),
                 parseDateUTC(2016, 2, 1)},
        override \in {None, Some(0), Some(50)} }

\* the joiner of 2020-07-01 on the July schedule, with and without breaks
ExampleJoiners ==
    { [BaseInput(parseDateUTC(2020, 7, 1), RunMonths) EXCEPT
          !.joiningLevel = Some(1),
          !.breaksInService = breaks] :
        breaks \in {<<>>,
                    << Break(parseDateUTC(2020, 8, 1), parseDateUTC(2020, 9, 30)) >>,
                    << Break(parseDateUTC(2020, 8, 1), parseDateUTC(2020, 9, 30)),
                       Break(parseDateUTC(2020, 12, 1), parseDateUTC(2020, 11, 1)) >>} }

\* probationers of January 2016 with a required test; the first scheduled
\* increment date is 2016-07-01
ProbationJoiners ==
    { [BaseInput(doj, RunMonths) EXCEPT
          !.joiningLevel = Some(1),
          !.probationPeriodType = type,
          !.hasTestRequirement = TRUE,
          !.testStatus = test[1],
          !.testPassedDate = test[2],
          !.probationStartDate = Some(start),
          !.selectionGradeDate = grade] :
        doj \in {parseDateUTC(2016, 1, 1), parseDateUTC(2016, 1, 15)},
        type \in {"1 Year", "2 Years"},
        test \in {<<"Not Appeared", None>>, <<"Failed", None>>,
                  <<"Exempted", None>>, <<"Passed", None>>,
                  <<"Passed", Some(parseDateUTC(2016, 5, 10))>>,
                  <<"Passed", Some(parseDateUTC(2016, 7, 1))>>,
                  <<"Passed", Some(parseDateUTC(2016, 9, 20))>>,
                  <<"Passed", Some(parseDateUTC(2016, 10, 1))>>},
        start \in {parseDateUTC(2016, 1, 1), parseDateUTC(2011, 7, 2),
                   parseDateUTC(2011, 7, 1), parseDateUTC(2011, 6, 30)},
        grade \in {None, Some(parseDateUTC(2016, 7, 1)),
                   Some(parseDateUTC(2016, 10, 1))} }

\* joiners of the scale commissions who pass an account test before their
\* first increment
InScaleTestJoiners ==
    { [BaseInput(parseDateUTC(era[1], 7, 1), RunMonths) EXCEPT
          !.joiningPay = Some(era[3]),
          !.joiningScaleId = Some(era[2]),
          !.accountTestPasses = OneTest(parseDateUTC(era[1], passMonth, 1)),
          !.incrementEligibilityMonths = months,
          !.annualIncrementChanges =
              OneChange(parseDateUTC(era[1], 7, 1), month)] :
        era \in {<<1985, "3pc-a", 600>>, <<1985, "3pc-a", 880>>,
                 <<2005, "5pc-a", 2550>>, <<2005, "5pc-a", 3140>>,
                 <<2005, "5pc-a", 3200>>},
        passMonth \in {9, 10},
        months \in {Some(0), Some(6)},
        month \in {"oct", "jan"} }

\* 6th-PC joiners whose basic pay times 2.57 ends in one half
FitmentJoiners ==
    { [BaseInput(parseDateUTC(2015, 7, 1), RunMonths) EXCEPT
          !.joiningPay = Some(pipb),
          !.joiningScaleId = Some("6pc-a")] :
        pipb \in {4450, 4550, 4650} }

\* calls that lack a required field or join before 1980: an employee of each
\* era with one field taken away, and a joiner of July 1979
InvalidJoiners ==
    LET Complete(era) ==
            [BaseInput(parseDateUTC(era[1], 7, 1), RunMonths) EXCEPT
                !.joiningScaleId = era[2],
                !.joiningPay = era[3],
                !.joiningLevel = era[4]]
        Without(d, field) ==
            CASE field = "dateOfJoining" -> [d EXCEPT !.dateOfJoining = None]
              [] field = "calculationStartDate" -> [d EXCEPT !.calculationStartDate = None]
              [] field = "calculationEndDate" -> [d EXCEPT !.calculationEndDate = None]
              [] field = "joiningScaleId" -> [d EXCEPT !.joiningScaleId = None]
              [] field = "joiningPay" -> [d EXCEPT !.joiningPay = None]
              [] field = "joiningLevel" -> [d EXCEPT !.joiningLevel = None]
              [] OTHER -> d
    IN { Without(Complete(era), field) :
           era \in {<<1979, Some("3pc-a"), Some(600), None>>,
                    <<1985, Some("3pc-a"), Some(600), None>>,
                    <<1995, Some("4pc-a"), Some(1500), None>>,
                    <<2005, Some("5pc-a"), Some(2550), None>>,
                    <<2015, Some("6pc-a"), Some(4440), None>>,
                    <<2016, None, None, Some(1)>>},
           field \in {"dateOfJoining", "calculationStartDate",
                      "calculationEndDate", "joiningScaleId", "joiningPay",
                      "joiningLevel", "nothing"} }

\* employees whose scale or grade pay has no counterpart when the next
\* commission starts, beside employees who are carried over: a 3rd- and a
\* 4th-PC scale absent from the next table, a special grade of the 5th PC
\* (its scale is not in the 6th-PC table), and the grade pay without a level,
\* from joining or by promotion
UnmappableJoiners ==
    { [BaseInput(parseDateUTC(era[1], 7, 1), RunMonths) EXCEPT
          !.joiningScaleId = Some(era[2]),
          !.joiningPay = Some(era[3]),
          !.specialGradeDate = IF era[1] = 2005 /\ career = "grade"
                                  THEN Some(parseDateUTC(2005, 10, 1)) ELSE None,
          !.promotions = IF era[1] = 2015 /\ career = "promotion"
                            THEN OnePromotion(parseDateUTC(2015, 10, 1), Some(1650), None)
                            ELSE <<>>,
          !.annualIncrementChanges =
              OneChange(parseDateUTC(era[1], 7, 1), month)] :
        era \in {<<1985, "3pc-b", 1000>>, <<1985, "3pc-a", 600>>,
                 <<1995, "4pc-b", 3000>>, <<1995, "4pc-a", 1500>>,
                 <<2005, "5pc-a", 2550>>,
                 <<2015, "6pc-x", 4440>>, <<2015, "6pc-a", 4440>>},
        career \in {"none", "grade", "promotion"},
        month \in {"jan", "oct"} }

\* joiners of July 2015 with and without each allowance and deduction
AllowanceJoiners ==
    { [BaseInput(parseDateUTC(2015, 7, 1), RunMonths) EXCEPT
          !.joiningPay = Some(9300),
          !.joiningScaleId = Some("6pc-b"),
          !.cityClass = city,
          !.medicalAllowance = medical,
          !.cpsGpfContributionRate = rate,
          !.professionalTax = tax,
          !.gisContribution = gis] :
        city \in {"A", "C"},
        medical \in {0, 300},
        rate \in {0, 10},
        tax \in {0, 200},
        gis \in {0, 60} }

\* employees with a DA override whose first increment falls due in the
\* January of a commission transition, with a grade, a promotion or an account
\* test pass dated in that month
OrderJoiners ==
    { [BaseInput(parseDateUTC(era[1], 7, 1), RunMonths) EXCEPT
          !.joiningScaleId = Some(era[2]),
          !.joiningPay = Some(era[3]),
          !.daOverride = Some(50),
          !.annualIncrementChanges = OneChange(parseDateUTC(era[1], 7, 1), "jan"),
          !.selectionGradeDate =
              IF event = "grade" THEN Some(parseDateUTC(era[1] + 1, 1, day)) ELSE None,
          !.promotions =
              IF event = "promotion"
                 THEN OnePromotion(parseDateUTC(era[1] + 1, 1, day), None,
                                   IF era[1] = 2015 THEN Some(8) ELSE None)
                 ELSE <<>>,
          !.accountTestPasses =
              IF event = "test" THEN OneTest(parseDateUTC(era[1] + 1, 1, day))
              ELSE <<>>] :
        era \in {<<1985, "3pc-a", 600>>, <<1995, "4pc-a", 1500>>,
                 <<2005, "5pc-a", 2550>>, <<2015, "6pc-b", 9300>>},
        event \in {"none", "grade", "promotion", "test"},
        day \in {1, 20} }

\* joiners of January 2016 on the January schedule with no waiting period
\* (increments in January 2016 and January 2017) and up to two account-test
\* passes
TwoTestJoiners ==
    LET doj == parseDateUTC(2016, 1, 1) IN
    { [BaseInput(doj, RunMonths) EXCEPT
          !.joiningLevel = Some(1),
          !.incrementEligibilityMonths = Some(0),
          !.annualIncrementChanges = OneChange(doj, "jan"),
          !.accountTestPasses = tests] :
        tests \in {<< [passDate |-> Some(parseDateUTC(2016, 1, 10))],
                      [passDate |-> Some(parseDateUTC(2016, 5, 1))] >>,
                   << [passDate |-> Some(parseDateUTC(2016, 3, 1))],
                      [passDate |-> Some(parseDateUTC(2016, 5, 1))] >>,
                   << [passDate |-> Some(parseDateUTC(2016, 5, 1))],
                      [passDate |-> Some(parseDateUTC(2016, 5, 20))] >>,
                   << [passDate |-> Some(parseDateUTC(2016, 5, 1))],
                      [passDate |-> None] >>,
                   << [passDate |-> Some(parseDateUTC(2016, 5, 1))],
                      [passDate |-> Some(parseDateUTC(2017, 2, 1))] >>} }

\* 2-year probationers of January 2016 with a required test whose second
\* increment falls due in January 2017, with an account test passed in
\* between and a selection grade after the due date
GatedSecondJoiners ==
    LET doj == parseDateUTC(2016, 1, 1) IN
    { [BaseInput(doj, RunMonths) EXCEPT
          !.joiningLevel = Some(1),
          !.incrementEligibilityMonths = Some(0),
          !.annualIncrementChanges = OneChange(doj, "jan"),
          !.probationPeriodType = "2 Years",
          !.hasTestRequirement = TRUE,
          !.testStatus = test[1],
          !.testPassedDate = test[2],
          !.selectionGradeDate = grade,
          !.accountTestPasses = passes] :
        test \in {<<"Not Appeared", None>>, <<"Passed", None>>,
                  <<"Passed", Some(parseDateUTC(2017, 2, 10))>>,
                  <<"Passed", Some(parseDateUTC(2016, 6, 1))>>},
        grade \in {None, Some(parseDateUTC(2017, 2, 1))},
        passes \in {<<>>, OneTest(parseDateUTC(2016, 5, 1))} }

\* joiners of January 2016 whose first increment is due in the month of
\* joining, with a selection grade in that month and a promotion and a special
\* grade in the months after it
DeferredJoiners ==
    LET doj == parseDateUTC(2016, 1, 1) IN
    { [BaseInput(doj, RunMonths) EXCEPT
          !.joiningLevel = Some(1),
          !.incrementEligibilityMonths = Some(0),
          !.annualIncrementChanges = OneChange(doj, "jan"),
          !.selectionGradeDate = Some(doj),
          !.promotions = promo,
          !.specialGradeDate = special,
          !.accountTestPasses = passes] :
        promo \in {<<>>, OnePromotion(parseDateUTC(2016, 2, 1), None, Some(2)),
                   OnePromotion(parseDateUTC(2016, 4, 1), None, Some(2))},
        special \in {None, Some(parseDateUTC(2016, 3, 1))},
        passes \in {<<>>, OneTest(parseDateUTC(2016, 1, 5))} }

\* joiners of July 1985 and July 1995 whose pay, carried into the next
\* commission, lies below the start of the mapped scale, on one of its stages,
\* between two stages, at its maximum and above it, and joiners of July 2005
\* whose pay times 1.86 ends in one half or in another fraction
FitJoiners ==
    { [BaseInput(parseDateUTC(era[1], 7, 1), RunMonths) EXCEPT
          !.joiningPay = Some(era[3]),
          !.joiningScaleId = Some(era[2]),
          !.selectionGradeDate = IF grade THEN Some(parseDateUTC(era[1] + 1, 1, 1))
                                 ELSE None,
          !.annualIncrementChanges = OneChange(parseDateUTC(era[1], 7, 1), month)] :
        era \in {<<1985, "3pc-a", 1500>>, <<1985, "3pc-a", 1540>>,
                 <<1985, "3pc-a", 1705>>, <<1985, "3pc-a", 2060>>,
                 <<1985, "3pc-a", 2100>>, <<1985, "3pc-a", 2500>>,
                 <<1995, "4pc-a", 1000>>, <<1995, "4pc-a", 1492>>,
                 <<1995, "4pc-a", 1602>>, <<1995, "4pc-a", 2100>>,
                 <<1995, "4pc-a", 2142>>, <<1995, "4pc-a", 2200>>,
                 <<2005, "5pc-a", 2625>>, <<2005, "5pc-a", 2675>>,
                 <<2005, "5pc-sel", 3151>>, <<2005, "5pc-b", 5075>>},
        grade \in BOOLEAN,
        month \in {"jan", "jul"} }

\* joiners of the day of a transition, of the middle of its month and of the
\* day before it
TransitionDayJoiners ==
    { [BaseInput(parseDateUTC(era[1], era[2], era[3]), RunMonths) EXCEPT
          !.joiningPay = era[5],
          !.joiningScaleId = era[4],
          !.joiningLevel = era[6]] :
        era \in {<<1985, 12, 31, Some("3pc-a"), Some(600), None>>,
                 <<1986, 1, 1, Some("4pc-a"), Some(1500), None>>,
                 <<1986, 1, 15, Some("4pc-a"), Some(1500), None>>,
                 <<1995, 12, 31, Some("4pc-a"), Some(1500), None>>,
                 <<1996, 1, 1, Some("5pc-a"), Some(2550), None>>,
                 <<2005, 12, 31, Some("5pc-a"), Some(2550), None>>,
                 <<2006, 1, 1, Some("6pc-a"), Some(4440), None>>,
                 <<2006, 1, 15, Some("6pc-a"), Some(4440), None>>,
                 <<2015, 12, 31, Some("6pc-a"), Some(4440), None>>,
                 <<2016, 1, 1, None, None, Some(1)>>,
                 <<2016, 1, 31, None, None, Some(1)>>} }

\* joiners of January 2016 under each kind of probation, simulated over the
\* dates of three annual increments
CustomProbationJoiners ==
    LET doj == parseDateUTC(2016, 1, 1) IN
    { [BaseInput(doj, 2 * RunMonths) EXCEPT
          !.joiningLevel = Some(1),
          !.incrementEligibilityMonths = Some(0),
          !.annualIncrementChanges = OneChange(doj, "jan"),
          !.probationPeriodType = probation[1],
          !.probationPeriodMonths = probation[2],
          !.hasTestRequirement = required,
          !.testStatus = test[1],
          !.testPassedDate = test[2]] :
        probation \in {<<"1 Year", None>>, <<"2 Years", None>>,
                       <<"Custom", None>>, <<"Custom", Some(0)>>,
                       <<"Custom", Some(12)>>, <<"Custom", Some(18)>>,
                       <<"Custom", Some(19)>>, <<"Custom", Some(24)>>},
        required \in BOOLEAN,
        test \in {<<"Not Appeared", None>>, <<"Exempted", None>>,
                  <<"Passed", Some(parseDateUTC(2016, 5, 10))>>,
                  <<"Passed", Some(parseDateUTC(2017, 3, 1))>>} }

\* joiners of January 2010 on a post with a pay revision of 2010 and on
\* another post
RevisionJoiners ==
    { [BaseInput(parseDateUTC(2010, 1, 1), RunMonths) EXCEPT
          !.joiningPay = Some(scalePay[2]),
          !.joiningScaleId = Some(scalePay[1]),
          !.joiningPostId = Some(post),
          !.annualIncrementChanges = OneChange(parseDateUTC(2010, 1, 1), month)] :
        scalePay \in {<<"6pc-a", 4440>>, <<"6pc-b", 9300>>},
        post \in {"post-1", "custom"},
        month \in {"jul", "oct"} }

Inputs ==
    SixthPcJoiners \cup SeventhPcJoiners \cup EarlierJoiners \cup CareerJoiners
    \cup CalendarJoiners \cup OverrideJoiners \cup ExampleJoiners
    \cup ProbationJoiners \cup InScaleTestJoiners \cup FitmentJoiners
    \cup InvalidJoiners \cup UnmappableJoiners \cup AllowanceJoiners
    \cup OrderJoiners \cup TwoTestJoiners
    \cup GatedSecondJoiners \cup DeferredJoiners \cup FitJoiners
    \cup TransitionDayJoiners \cup CustomProbationJoiners
    \cup RevisionJoiners

\* ---------------------------------------------------------------- runs

Init ==
    /\ input \in [{1} -> Inputs]
    /\ sim = [i \in {1} |-> Blank]

\* The months simulated by the shorter of two runs.
ShortRunMonths == 8

\* the employees simulated twice
PairInputs ==
    { d \in SixthPcJoiners \cup SeventhPcJoiners :
          /\ d.accountTestPasses = <<>>
          /\ d.annualIncrementChanges[1].incrementMonth \in {"jan", "apr"} }
    \cup ExampleJoiners

\* two runs on inputs that differ only in calculationEndDate, the first run
\* ending earlier
InitPair ==
    /\ \E d \in PairInputs : \E months \in {ShortRunMonths - 5, ShortRunMonths} :
          LET doj == Val(d.dateOfJoining)
              earlier == DateUTC(getUTCFullYear(doj), getUTCMonth(doj) + months, 1)
          IN input = << [d EXCEPT !.calculationEndDate = Some(earlier)], d >>
    /\ sim = [i \in {1, 2} |-> Blank]

\* two runs of an employee relieved on some date: the first asked to run to
\* the requested end, the second to the date of relief; the dates of relief
\* are in the month of the 6 -> 7 transition, on the first day of a month,
\* the day before the date of joining, and after the requested end
InitRelief ==
    /\ \E d \in PairInputs : \E relief \in {"mid", "first", "before", "after"} :
          LET doj == Val(d.dateOfJoining)
              end == DateUTC(getUTCFullYear(doj),
                             getUTCMonth(doj) + ShortRunMonths, 1)
              reliefDate ==
                  CASE relief = "mid" -> AddMonths(doj, 6) + 14
                    [] relief = "first" ->
                         DateUTC(getUTCFullYear(doj), getUTCMonth(doj) + 3, 1)
                    [] relief = "before" -> doj - 1
                    [] OTHER -> end + 31
              relieved == [d EXCEPT !.dateOfRelief = Some(reliefDate),
                                    !.calculationEndDate = Some(end)]
          IN input = << relieved,
                        [relieved EXCEPT !.calculationEndDate = Some(reliefDate)] >>
    /\ sim = [i \in {1, 2} |-> Blank]

\* ------------------------------------------------------------- actions

\* validation, initial fixation and the first scheduled increment date
Start(i) ==
    /\ sim[i].pc = "start"
    /\ sim' = [sim EXCEPT ![i] =
                 IF SetupError(input[i]) # ""
                    THEN Throw(Blank, SetupError(input[i]))
                    ELSE Setup(input[i])]
    /\ UNCHANGED input

\* one iteration of the monthly loop
MonthStep(i) ==
    /\ sim[i].pc = "loop"
    /\ sim[i].currentDate <= sim[i].calcEndDate
    /\ sim' = [sim EXCEPT ![i] = MonthBody(sim[i], input[i])]
    /\ UNCHANGED input

\* the loop has ended: the result is assembled and returned
Finish(i) ==
    /\ sim[i].pc = "loop"
    /\ sim[i].currentDate > sim[i].calcEndDate
    /\ sim' = [sim EXCEPT ![i] = [sim[i] EXCEPT
                                     !.pc = "done",
                                     !.result = Some(PayrollResult(sim[i], input[i]))]]
    /\ UNCHANGED input

StartRun == \E i \in DOMAIN sim : Start(i)
SimulateMonth == \E i \in DOMAIN sim : MonthStep(i)
FinishRun == \E i \in DOMAIN sim : Finish(i)

Next == StartRun \/ SimulateMonth \/ FinishRun

Spec == Init /\ [][Next]_vars

SpecPair == InitPair /\ [][Next]_vars

SpecRelief == InitRelief /\ [][Next]_vars

\* two runs of an employee, the first asked for every month from the date of
\* joining, the second from a later date: the middle of the first month, the
\* first day of a later month, the middle of the month of the 6 -> 7
\* transition, and a date after the end
InitStart ==
    /\ \E d \in PairInputs : \E start \in {"mid", "first", "transition", "after"} :
          LET doj == Val(d.dateOfJoining)
              end == DateUTC(getUTCFullYear(doj),
                             getUTCMonth(doj) + ShortRunMonths, 1)
              startDate ==
                  CASE start = "mid" -> doj + 14
                    [] start = "first" ->
                         DateUTC(getUTCFullYear(doj), getUTCMonth(doj) + 3, 1)
                    [] start = "transition" -> AddMonths(doj, 6) + 14
                    [] OTHER -> end + 31
              whole == [d EXCEPT !.calculationEndDate = Some(end)]
          IN input = << whole, [whole EXCEPT !.calculationStartDate = Some(startDate)] >>
    /\ sim = [i \in {1, 2} |-> Blank]

SpecStart == InitStart /\ [][Next]_vars

\* ---------------------------------------------- getIncrement on its own

\* The greatest number of steps of one call.
MaxSteps == 2

\* pays in pay band below, at and above the maximum of their band, and a grade
\* pay that has no band
IncrementInputs ==
    { [payInPayBand |-> p, gradePay |-> g, steps |-> n] :
        p \in { 4440 + 10 * k : k \in 0..320 },
        g \in {1300, 1400, 1900},
        n \in 1..MaxSteps }
    \cup
    { [payInPayBand |-> p, gradePay |-> 4200, steps |-> n] :
        p \in { 33000 + 50 * k : k \in 0..40 },
        n \in 1..MaxSteps }

InitIncrement ==
    /\ input \in [{1} -> IncrementInputs]
    /\ sim = [i \in {1} |-> Blank]

\* one call of getIncrement in the 6th PC on the basic pay PIPB + GP
CallGetIncrement(i) ==
    /\ sim[i].pc = "start"
    /\ sim' = [sim EXCEPT ![i] =
                 [sim[i] EXCEPT
                    !.pc = "done",
                    !.result = Some(getIncrement(
                                      input[i].payInPayBand + input[i].gradePay,
                                      0, input[i].steps, 6,
                                      Some(input[i].gradePay)))]]
    /\ UNCHANGED input

NextIncrement == \E i \in DOMAIN sim : CallGetIncrement(i)

SpecIncrement == InitIncrement /\ [][NextIncrement]_vars

\* the scales of the tables
SearchScales ==
    {Scale3A, Scale4A, Scale5A, Scale5Sel, Scale5Spl, Scale5B,
     Scale3B, Scale4B, Scale5X}

\* each scale searched from pays below its start to pays above its maximum,
\* the pays in steps of 5
SearchInputs ==
    { d \in [currentPay : { 5 * k : k \in 0..1620 },
             newScaleString : SearchScales] :
          /\ d.currentPay >= d.newScaleString[1] - 10
          /\ d.currentPay <= d.newScaleString[Len(d.newScaleString)] + 10 }

\* a call of calculateFullPayroll or a call of findNextHigherStageInScale
InitLive ==
    \/ /\ input \in [{1} -> Inputs]
       /\ sim = [i \in {1} |-> Blank]
    \/ /\ input \in [{1} -> SearchInputs]
       /\ sim = [i \in {1} |-> [pc |-> "call", pay |-> 0, result |-> None]]

\* the returns before the loop of the search, and the start of the loop
EnterSearch(i) ==
    LET scale == parseScale(input[i].newScaleString)
        currentPay == input[i].currentPay
    IN /\ sim[i].pc = "call"
       /\ sim' = [sim EXCEPT ![i] =
                    IF Len(scale.stages) = 0
                       THEN [@ EXCEPT !.pc = "done", !.result = Some(currentPay)]
                    ELSE IF currentPay >= scale.max
                       THEN [@ EXCEPT !.pc = "done", !.result = Some(scale.max)]
                    ELSE IF currentPay < scale.start
                       THEN [@ EXCEPT !.pc = "done", !.result = Some(scale.start)]
                    ELSE [@ EXCEPT !.pc = "search", !.pay = scale.start]]
       /\ UNCHANGED input

\* one iteration of the loop of the search
SearchStep(i) ==
    LET scale == parseScale(input[i].newScaleString)
    IN /\ sim[i].pc = "search"
       /\ sim[i].pay <= input[i].currentPay
       /\ sim[i].pay < scale.max
       /\ sim' = [sim EXCEPT ![i].pay = StepInScale(@, scale)]
       /\ UNCHANGED input

\* the loop of the search has ended: the pay reached, capped at the maximum
SearchReturn(i) ==
    LET scale == parseScale(input[i].newScaleString)
    IN /\ sim[i].pc = "search"
       /\ ~(sim[i].pay <= input[i].currentPay /\ sim[i].pay < scale.max)
       /\ sim' = [sim EXCEPT ![i] =
                    [@ EXCEPT !.pc = "done",
                              !.result = Some(Min(sim[i].pay, scale.max))]]
       /\ UNCHANGED input

CallSearch == \E i \in DOMAIN sim : EnterSearch(i)
IterateSearch == \E i \in DOMAIN sim : SearchStep(i)
ReturnSearch == \E i \in DOMAIN sim : SearchReturn(i)

NextLive ==
    \/ StartRun \/ SimulateMonth \/ FinishRun
    \/ CallSearch \/ IterateSearch \/ ReturnSearch

NextPayroll == StartRun \/ SimulateMonth \/ FinishRun

NextSearch == CallSearch \/ IterateSearch \/ ReturnSearch

\* the states in which a step of calculateFullPayroll can be taken: set-up is
\* to run, or the loop is to iterate or to end
PayrollEnabled == \E i \in DOMAIN sim : sim[i].pc \in {"start", "loop"}

\* weak fairness of NextPayroll, with ENABLED <<NextPayroll>>_vars written as
\* the state predicate it is equal to
PayrollFairness == []<>(~PayrollEnabled) \/ []<><<NextPayroll>>_vars

\* a call runs to completion on its own thread: a step that can be taken is
\* taken
SpecLive ==
    InitLive /\ [][NextLive]_vars /\ WF_vars(NextSearch) /\ PayrollFairness

\* ------------------------------------------------------------- claims

Runs == DOMAIN sim

\* the run is in its loop or has returned its result
Live(s) == s.pc \in {"loop", "done"}

Last(seq) == seq[Len(seq)]

Contains(seq, x) == \E k \in 1..Len(seq) : seq[k] = x

FixationRemark(c) ==
    CASE c = 4 -> "Pay fixed in 4th Pay Commission"
      [] c = 5 -> "Pay fixed in 5th Pay Commission"
      [] c = 6 -> "Pay fixed in 6th Pay Commission"
      [] c = 7 -> "Pay fixed in 7th Pay Commission"

\* the remarks of the actions that count as the increment of the month
IncrementRemarks ==
    {"Annual Increment applied", "Promotion"}
    \cup { g \o t : g \in {"SELECTION GRADE", "SPECIAL GRADE"},
                    t \in {": Pay moved to scale",
                           " (1 increment) applied. No scale mapping",
                           " (1 increment) applied.",
                           " (2 increments) applied."} }

HasIncrementRemark(p) == \E k \in 1..Len(p.remarks) : p.remarks[k] \in IncrementRemarks

\* the pay the fixation snapshot of commission c records as the revised pay
SnapshotPay(s, c) ==
    CASE c = 4 -> Val(s.fixation4thPC).initialRevisedPay
      [] c = 5 -> Val(s.fixation5thPC).initialRevisedPay
      [] c = 6 -> Val(s.fixation6thPC).initialRevisedBasicPay
      [] c = 7 -> Val(s.fixation7thPC).initialRevisedPay

HasSnapshot(s, c) ==
    CASE c = 4 -> IsSome(s.fixation4thPC)
      [] c = 5 -> IsSome(s.fixation5thPC)
      [] c = 6 -> IsSome(s.fixation6thPC)
      [] c = 7 -> IsSome(s.fixation7thPC)

\* C1: in every emitted period of the 7th PC, basicPay is a stage of
\* PayMatrix[level] for the level of that month.  A period carries no level, so
\* the period stored last is compared with the level of the state that stored
\* it; every period is the last one in the state after its month.
C1_BasicPayInMatrix ==
    \A i \in Runs :
        LET s == sim[i] IN
        (Live(s) /\ Len(s.periods) > 0 /\ Last(s.periods).commission = 7)
            => /\ s.currentLevel \in DOMAIN PAY_MATRIX
               /\ Contains(PAY_MATRIX[s.currentLevel], Last(s.periods).basicPay)

\* a 7th-PC period after a 6 -> 7 fixation, a promotion, a selection grade and
\* an annual increment
C1_Witness ==
    \E i \in Runs :
        LET s == sim[i] IN
        /\ Live(s) /\ Len(s.periods) > 0 /\ Last(s.periods).commission = 7
        /\ IsSome(s.fixation7thPC)
        /\ s.incrementAnalysis.promotion > 0
        /\ s.incrementAnalysis.selectionGrade > 0
        /\ s.incrementAnalysis.regular > 0

\* C2: in every emitted period of the 6th PC, basicPay = payInPayBand + gradePay
\* and payInPayBand lies within the pay band of the grade pay.
C2_PayInPayBandWithinBand ==
    \A i \in Runs : \A k \in 1..Len(sim[i].periods) :
        LET p == sim[i].periods[k] IN
        p.commission = 6
            => /\ IsSome(p.payInPayBand) /\ IsSome(p.gradePay)
               /\ p.basicPay = Val(p.payInPayBand) + Val(p.gradePay)
               /\ Val(p.payInPayBand) >= PAY_BAND_LIMITS_6TH_PC[Val(p.gradePay)].min
               /\ Val(p.payInPayBand) <= PAY_BAND_LIMITS_6TH_PC[Val(p.gradePay)].max

\* C3: the commission never decreases along the emitted periods.
C3_CommissionMonotonic ==
    \A i \in Runs : \A k \in 1..(Len(sim[i].periods) - 1) :
        sim[i].periods[k + 1].commission >= sim[i].periods[k].commission

\* a finished run whose periods pass through all five commissions
C3_Witness ==
    \E i \in Runs :
        /\ sim[i].pc = "done"
        /\ \A c \in 3..7 : \E k \in 1..Len(sim[i].periods) :
              sim[i].periods[k].commission = c

\* C4 as stated: the snapshot of every transition that fired records the
\* basicPay of the first emitted period of the new commission.
C4_SnapshotIsFirstPeriodPay ==
    \A i \in Runs : \A c \in 4..7 :
        LET s == sim[i]
            Of(p) == p.commission = c
            first == FirstIndex(s.periods, Of)
        IN (Live(s) /\ HasSnapshot(s, c) /\ first # 0)
              => s.periods[first].basicPay = SnapshotPay(s, c)

\* C4 amended: the snapshot records the basicPay of the period of the
\* transition month, when that month is emitted and no selection/special
\* grade, promotion or annual increment is applied in it.
C4_SnapshotIsTransitionMonthPay ==
    \A i \in Runs : \A c \in 4..7 : \A k \in 1..Len(sim[i].periods) :
        LET s == sim[i]
            p == s.periods[k]
        IN (Live(s) /\ Contains(p.remarks, FixationRemark(c))
                /\ ~HasIncrementRemark(p))
              => /\ HasSnapshot(s, c)
                 /\ p.commission = c
                 /\ p.basicPay = SnapshotPay(s, c)
                 /\ \A j \in 1..(k - 1) : s.periods[j].commission < c

\* an emitted transition month with no increment in it, in a finished run
C4_Witness ==
    \E i \in Runs : \E k \in 1..Len(sim[i].periods) :
        LET p == sim[i].periods[k] IN
        /\ sim[i].pc = "done"
        /\ Contains(p.remarks, FixationRemark(7))
        /\ ~HasIncrementRemark(p)
        /\ k > 1

\* the series of the DA table a commission draws from
DaSeries(commission) == IF commission < 6 THEN 5 ELSE commission

\* the rate of the latest entry of the series dated before the day next, 0 if
\* there is none
LookupDaRate(commission, next) ==
    LET Applies(e) == e.commission = DaSeries(commission) /\ e.date < next
        past == SelectSeq(DA_RATES, Applies)
        Latest(e) == \A f \in 1..Len(past) : past[f].date <= e.date
        i == FirstIndex(past, Latest)
    IN IF i = 0 THEN 0 ELSE past[i].rate

\* C5: with no daOverride, the daRate of every emitted period is the rate of
\* the latest DA entry of the period's commission dated on or before the period.
C5_DaRateIsLatestEntry ==
    \A i \in Runs : \A k \in 1..Len(sim[i].periods) :
        LET p == sim[i].periods[k] IN
        ~IsSome(input[i].daOverride)
            => p.daRate = LookupDaRate(p.commission, DateUTC(p.year, p.month + 1, 1))

\* C6: a DA entry of the new commission dated in the transition month takes
\* effect in the period of that month.
C6_DaAppliedAfterFixation ==
    \A i \in Runs : \A k \in 1..Len(sim[i].periods) : \A e \in 1..Len(DA_RATES) :
        LET p == sim[i].periods[k]
            da == DA_RATES[e]
        IN (/\ ~IsSome(input[i].daOverride)
            /\ \E c \in 4..7 : Contains(p.remarks, FixationRemark(c))
            /\ da.commission = DaSeries(p.commission)
            /\ DateUTC(p.year, p.month, 1) <= da.date
            /\ da.date < DateUTC(p.year, p.month + 1, 1))
              => p.daRate = da.rate

\* C7: consecutive emitted periods are exactly one calendar month apart.
C7_OnePeriodPerMonth ==
    \A i \in Runs : \A k \in 1..(Len(sim[i].periods) - 1) :
        LET p == sim[i].periods[k]
            q == sim[i].periods[k + 1]
        IN 12 * q.year + q.month = 12 * p.year + p.month + 1

\* the inputs of runs i and j differ only in calculationEndDate, i ending first
EndsEarlier(i, j) ==
    /\ IsSome(input[i].calculationEndDate) /\ IsSome(input[j].calculationEndDate)
    /\ Val(input[i].calculationEndDate) < Val(input[j].calculationEndDate)
    /\ [input[i] EXCEPT !.calculationEndDate = input[j].calculationEndDate] = input[j]

\* C8: of two runs on inputs that differ only in calculationEndDate, the
\* periods of the run ending earlier are a prefix of the periods of the other:
\* the periods emitted so far agree one by one, and the finished shorter run
\* has no period the finished longer run lacks.
C8_ShorterRunIsPrefix ==
    \A i \in Runs : \A j \in Runs :
        EndsEarlier(i, j)
            => /\ \A k \in 1..Min(Len(sim[i].periods), Len(sim[j].periods)) :
                      sim[i].periods[k] = sim[j].periods[k]
               /\ (sim[i].pc = "done" /\ sim[j].pc = "done")
                      => /\ Len(sim[i].periods) <= Len(sim[j].periods)
                         /\ SubSeq(sim[j].periods, 1, Len(sim[i].periods))
                                = sim[i].periods

\* both runs returned, the longer one with a 6 -> 7 fixation and a promotion
\* the shorter one never saw
C8_Witness ==
    \E i \in Runs : \E j \in Runs :
        /\ EndsEarlier(i, j)
        /\ sim[i].pc = "done" /\ sim[j].pc = "done"
        /\ Len(sim[i].periods) > 0
        /\ Len(sim[j].periods) > Len(sim[i].periods)
        /\ ~IsSome(sim[i].fixation7thPC) /\ IsSome(sim[j].fixation7thPC)
        /\ sim[i].incrementAnalysis.promotion < sim[j].incrementAnalysis.promotion

OnQuarterStart(t) == getUTCDate(t) = 1 /\ getUTCMonth(t) \in {0, 3, 6, 9}

CountedBreakDays(breaks) ==
    LET RECURSIVE Sum(_)
        Sum(k) == IF k = 0 THEN 0
                  ELSE Sum(k - 1)
                       + (IF Val(breaks[k].endDate) > Val(breaks[k].startDate)
                             THEN Val(breaks[k].endDate) - Val(breaks[k].startDate)
                             ELSE 0)
    IN Sum(Len(breaks))

ExpectedFirstIncrementDate(data) ==
    LET doj == Val(data.dateOfJoining)
        months == IF IsSome(data.incrementEligibilityMonths)
                     THEN Val(data.incrementEligibilityMonths) ELSE 6
        eligible == DateUTC(getUTCFullYear(doj), getUTCMonth(doj) + months,
                            getUTCDate(doj))
        Dated(c) == IsSome(c.effectiveDate)
        first == CHOOSE c \in { data.annualIncrementChanges[k] :
                                  k \in 1..Len(data.annualIncrementChanges) } :
                    /\ Dated(c)
                    /\ \A k \in 1..Len(data.annualIncrementChanges) :
                          Dated(data.annualIncrementChanges[k])
                             => Val(c.effectiveDate)
                                   <= Val(data.annualIncrementChanges[k].effectiveDate)
        month == MonthIndex(first.incrementMonth)
        year == getUTCFullYear(eligible)
                + (IF getUTCMonth(eligible) > month THEN 1 ELSE 0)
    IN DateUTC(year, month, 1) + CountedBreakDays(data.breaksInService)

RECURSIVE FirstSimulatedOnOrAfter(_, _)
FirstSimulatedOnOrAfter(date, t) ==
    IF date >= t THEN date ELSE FirstSimulatedOnOrAfter(AddMonths(date, 1), t)

\* the remarks of a grade or a promotion applied in the month
GradeOrPromotionRemarks == IncrementRemarks \ {"Annual Increment applied"}

NoGradeOrPromotion(remarks) ==
    \A k \in 1..Len(remarks) : remarks[k] \notin GradeOrPromotionRemarks

WithheldRemarks ==
    {"Annual Increment withheld. Reason: " \o r :
        r \in {"withheld until the prescribed test is passed",
               "CRITICAL: PROBATION TERMINATED"}}

HasWithheldRemark(remarks) ==
    \E k \in 1..Len(remarks) : remarks[k] \in WithheldRemarks

\* a 1-year probationer with a required test, before the first grant
FirstIncrementGated(data, s) ==
    /\ s.pc = "loop"
    /\ data.probationPeriodType = "1 Year"
    /\ data.hasTestRequirement
    /\ s.incrementsGranted = 0
    /\ IsSome(s.nextScheduledIncrementDate)

\* the month of the step from s to t ends with no grant
NothingGranted(s, t) ==
    /\ t.incrementsGranted = 0
    /\ t.incrementAnalysis.regular = 0
    /\ ~Contains(t.remarks, "Annual Increment applied")

\* the month of the step from s to t ends with one regular increment on the
\* pay of s
OneRegularIncrement(s, t) ==
    /\ t.incrementsGranted = 1
    /\ t.incrementAnalysis.regular = 1
    /\ Contains(t.remarks, "Annual Increment applied")
    /\ t.currentPay = getIncrement(s.currentPay, s.currentLevel, 1,
                                   s.currentCommission, s.currentGradePay).newPay

\* what C11 asks of the step of run i, with or without the months in which a
\* grade or a promotion is applied
ProbationGate(i, everyMonth) ==
    LET s == sim[i]
        t == sim'[i]
        data == input[i]
        doj == Val(data.dateOfJoining)
        X == Val(s.nextScheduledIncrementDate)
        Y == Val(data.testPassedDate)
        due == IF X >= Y THEN X ELSE Y
        counts == everyMonth \/ NoGradeOrPromotion(t.remarks)
    IN (FirstIncrementGated(data, s) /\ t # s /\ t.pc = "loop")
         => /\ (data.testStatus # "Passed"
                  /\ s.currentDate = FirstSimulatedOnOrAfter(doj, X) /\ counts)
               => /\ NothingGranted(s, t)
                  /\ t.currentPay = s.currentPay
                  /\ HasWithheldRemark(Last(t.periods).remarks)
            /\ (data.testStatus = "Passed" /\ IsSome(data.testPassedDate))
               => /\ s.currentDate < due => NothingGranted(s, t)
                  /\ (s.currentDate >= due /\ counts
                        /\ (everyMonth => s.currentDate = FirstSimulatedOnOrAfter(doj, due)))
                       => OneRegularIncrement(s, t)

AccountTestAwaitsIncrement(data, s) ==
    /\ s.incrementAnalysis.accountTest = 0
    /\ \E k \in 1..Len(data.accountTestPasses) :
          /\ IsSome(data.accountTestPasses[k].passDate)
          /\ Val(data.accountTestPasses[k].passDate)
                >= MonthStart(Val(data.dateOfJoining))
          /\ Val(data.accountTestPasses[k].passDate) < NextMonthStart(s.currentDate)

\* the pay the increments of the month from s to t start from: the pay of s,
\* or the fixed pay when a commission transition came first in the month
PayBeforeIncrement(s, t) ==
    IF t.currentCommission # s.currentCommission
       THEN SnapshotPay(t, t.currentCommission)
       ELSE s.currentPay

\* the pay n increments above pay, in the pay structure of the state t
IncrementedPay(t, pay, n) ==
    IF t.currentCommission < 6
       THEN getIncrementInScale(pay, Val(t.currentScaleString), n)
       ELSE getIncrement(pay, t.currentLevel, n, t.currentCommission,
                         t.currentGradePay).newPay

\* C12: when an account-test pass was processed before the annual increment
\* is granted, the month of the grant applies two increments to basicPay, one
\* regular and one for the test, clears the pending flag and leaves
\* incrementAnalysis.accountTest at 1.
C12_AccountTestDoubleIncrement ==
    [][\A i \in Runs :
         LET s == sim[i]
             t == sim'[i]
         IN (/\ s.pc = "loop" /\ t.pc = "loop"
             /\ AccountTestAwaitsIncrement(input[i], s)
             /\ t.incrementsGranted = s.incrementsGranted + 1)
              => /\ t.currentPay = IncrementedPay(t, PayBeforeIncrement(s, t), 2)
                 /\ t.incrementAnalysis.regular = s.incrementAnalysis.regular + 1
                 /\ t.incrementAnalysis.accountTest = 1
                 /\ t.incrementAnalysis.total = s.incrementAnalysis.total + 2
                 /\ ~t.accountTestIncrementPending
                 /\ Contains(Last(t.periods).remarks,
                             "Additional increment for passing Account Test applied.")]_vars

\* a finished run whose account test was rewarded along with a regular
\* increment, in the month of the 6 -> 7 fixation
C12_Witness ==
    \E i \in Runs : \E k \in 1..Len(sim[i].periods) :
        /\ sim[i].pc = "done"
        /\ sim[i].incrementAnalysis.accountTest = 1
        /\ ~sim[i].accountTestIncrementPending
        /\ Contains(sim[i].periods[k].remarks,
                    "Additional increment for passing Account Test applied.")
        /\ Contains(sim[i].periods[k].remarks, FixationRemark(7))

\* the index of pay among the stages of a level, 0 if it is none of them
StageIndex(level, pay) ==
    IF \E k \in 1..Len(PAY_MATRIX[level]) : PAY_MATRIX[level][k] = pay
       THEN CHOOSE k \in 1..Len(PAY_MATRIX[level]) : PAY_MATRIX[level][k] = pay
       ELSE 0

\* one 6th-PC increment on a basic pay, then n - 1 more
RECURSIVE SixthPcIncrements(_, _, _)
SixthPcIncrements(pay, gradePay, n) ==
    IF n = 0 THEN pay
    ELSE SixthPcIncrements(getIncrement(pay, 0, 1, 6, gradePay).newPay,
                           gradePay, n - 1)

RoundedFitment(x) == (x * 257 + 50) \div 100

\* the least stage of the level that is >= pay, the last stage if none is
LeastStageFrom(level, pay) ==
    LET stages == PAY_MATRIX[level]
        fits == { k \in 1..Len(stages) : stages[k] >= pay }
    IN IF fits = {} THEN stages[Len(stages)]
       ELSE stages[CHOOSE k \in fits : \A j \in fits : k <= j]

\* C14: at the 6 -> 7 transition, with old basic pay b and grade pay g,
\* multipliedPay = round(b * 2.57), level = gradePayToLevel[g], the new
\* basicPay is the least stage of PayMatrix[level] >= multipliedPay (the last
\* stage if none), PIPB and grade pay are cleared, and the snapshot records
\* oldBasicPay = b, multipliedPay, initialRevisedPay and level.
C14_SeventhPcFixation ==
    [][\A i \in Runs :
         LET s == sim[i]
             t == sim'[i]
             b == s.currentPay
             g == Val(s.currentGradePay)
             snap == Val(t.fixation7thPC)
         IN (~IsSome(s.fixation7thPC) /\ IsSome(t.fixation7thPC))
              => /\ snap.oldBasicPay = b
                 /\ snap.multipliedPay = RoundedFitment(b)
                 /\ snap.level = GRADE_PAY_TO_LEVEL[g]
                 /\ snap.initialRevisedPay = LeastStageFrom(snap.level, snap.multipliedPay)
                 /\ DOMAIN snap = {"oldBasicPay", "multipliedPay",
                                   "initialRevisedPay", "level"}
                 /\ t.currentPipb = None /\ t.currentGradePay = None
                 /\ Last(t.periods).payInPayBand = None
                 /\ Last(t.periods).gradePay = None]_vars

\* C15: when the input supplies daOverride, the daRate of every emitted
\* period equals daOverride, the months before the first DA change event is
\* processed included.
C15_DaOverrideEveryPeriod ==
    \A i \in Runs :
        IsSome(input[i].daOverride) =>
            \A k \in 1..Len(sim[i].periods) :
                sim[i].periods[k].daRate = Val(input[i].daOverride)

\* the call lacks a date, joins before 1980, or lacks the joining pay fields of
\* the era of its date of joining
InvalidInput(data) ==
    \/ data.dateOfJoining = None
    \/ data.calculationStartDate = None
    \/ data.calculationEndDate = None
    \/ LET doj == Val(data.dateOfJoining) IN
         \/ doj < DateUTC(1980, 0, 1)
         \/ /\ doj < DateUTC(2006, 0, 1)
            /\ (data.joiningScaleId = None \/ data.joiningPay = None)
         \/ /\ DateUTC(2006, 0, 1) <= doj /\ doj < DateUTC(2016, 0, 1)
            /\ (data.joiningPay = None \/ data.joiningScaleId = None)
         \/ /\ DateUTC(2016, 0, 1) <= doj
            /\ data.joiningLevel = None

\* C16: a call with a missing date of joining, start date or end date, with a
\* date of joining before 1980-01-01, or without the joining pay fields of the
\* era of the joining date ends in an error before any month is simulated and
\* returns no result.
C16_InvalidInputRejected ==
    \A i \in Runs :
        (InvalidInput(input[i]) /\ sim[i].pc # "start") =>
            /\ sim[i].pc = "error"
            /\ sim[i].error # ""
            /\ sim[i].periods = <<>>
            /\ sim[i].result = None

\* a joiner of July 1979 with every field supplied has been rejected
C16_Witness ==
    \E i \in Runs :
        /\ input[i].dateOfJoining = Some(DateUTC(1979, 6, 1))
        /\ input[i].joiningPay # None /\ input[i].joiningScaleId # None
        /\ sim[i].pc = "error"
        /\ sim[i].periods = <<>> /\ sim[i].result = None

\* the month about to be simulated is the January in which the commission
\* after the current one starts
TransitionDue(s) ==
    /\ s.pc = "loop"
    /\ s.currentDate <= s.calcEndDate
    /\ getUTCMonth(s.currentDate) = 0
    /\ \/ s.currentCommission = 3 /\ getUTCFullYear(s.currentDate) = 1986
       \/ s.currentCommission = 4 /\ getUTCFullYear(s.currentDate) = 1996
       \/ s.currentCommission = 5 /\ getUTCFullYear(s.currentDate) = 2006
       \/ s.currentCommission = 6 /\ getUTCFullYear(s.currentDate) = 2016

\* the table of the next commission has no entry for the current scale, or
\* the grade pay has no level
Unmappable(s) ==
    CASE s.currentCommission = 3 ->
           ~\E k \in DOMAIN PAY_SCALES_4TH_PC :
               PAY_SCALES_4TH_PC[k].legacy = s.currentScaleString
      [] s.currentCommission = 4 ->
           ~\E k \in DOMAIN PAY_SCALES_5TH_PC :
               PAY_SCALES_5TH_PC[k].legacy = s.currentScaleString
      [] s.currentCommission = 5 ->
           ~\E k \in DOMAIN PAY_SCALES_6TH_PC :
               Some(PAY_SCALES_6TH_PC[k].scale) = s.currentScaleString
      [] s.currentCommission = 6 ->
           Val(s.currentGradePay) \notin DOMAIN GRADE_PAY_TO_LEVEL
      [] OTHER -> FALSE

\* C17: when a commission transition month is reached and the current scale
\* cannot be mapped to the new commission's table (3->4, 4->5, 5->6) or the
\* grade pay has no level (6->7), the run aborts with an error and no result:
\* no period is emitted for the month, the commission, scale, grade pay and
\* level are the ones before the month, and an aborted run takes no more
\* steps.
C17_UnmappableAborts ==
    [][\A i \in Runs :
         LET s == sim[i]
             t == sim'[i]
         IN /\ (TransitionDue(s) /\ Unmappable(s) /\ t # s) =>
                  /\ t.pc = "error" /\ t.error # ""
                  /\ t.result = None
                  /\ t.periods = s.periods
                  /\ t.currentCommission = s.currentCommission
                  /\ t.currentScaleString = s.currentScaleString
                  /\ t.currentGradePay = s.currentGradePay
                  /\ t.currentLevel = s.currentLevel
            /\ s.pc = "error" => t = s]_vars

\* a run stopped in January 2006 on the special grade scale of the 5th PC,
\* with the six months of 2005 emitted
C17_Witness ==
    \E i \in Runs :
        /\ sim[i].pc = "error"
        /\ sim[i].currentCommission = 5
        /\ sim[i].currentScaleString = Some(Scale5Spl)
        /\ sim[i].currentDate = DateUTC(2006, 0, 1)
        /\ Len(sim[i].periods) = 6
        /\ sim[i].result = None

TerminationRemark == "Annual Increment withheld. Reason: CRITICAL: PROBATION TERMINATED"

\* more than 5 years of 365.25 days between the two dates
MoreThan5Years(start, date) == 4 * (date - start) > 5 * (4 * 365 + 1)

\* the month about to be simulated is one in which the scheduled increment is
\* due, the required test is neither passed nor exempted and the scheduled
\* date is more than 5 years after the start of probation
ProbationOverdue(data, s) ==
    /\ s.pc = "loop"
    /\ s.currentDate <= s.calcEndDate
    /\ data.hasTestRequirement
    /\ data.testStatus \notin {"Passed", "Exempted"}
    /\ IsSome(s.nextScheduledIncrementDate)
    /\ s.currentDate >= Val(s.nextScheduledIncrementDate)
    /\ MoreThan5Years(Val(data.probationStartDate),
                      Val(s.nextScheduledIncrementDate))

\* what C18 asks of the step of run i; the remark is asked of the first due
\* month whatever else happens in it, or of every due month in which no
\* grade or promotion is applied
ProbationTermination(i, firstDueMonth) ==
    LET s == sim[i]
        t == sim'[i]
        data == input[i]
        X == Val(s.nextScheduledIncrementDate)
        first == s.currentDate = FirstSimulatedOnOrAfter(Val(data.dateOfJoining), X)
        remarked == IF firstDueMonth THEN first ELSE NoGradeOrPromotion(t.remarks)
    IN (ProbationOverdue(data, s) /\ t # s) =>
         /\ t.pc = "loop" /\ t.error = ""
         /\ Len(t.periods) = Len(s.periods) + 1
         /\ Last(t.periods).year = getUTCFullYear(s.currentDate)
         /\ Last(t.periods).month = getUTCMonth(s.currentDate)
         /\ t.currentDate = AddMonths(s.currentDate, 1)
         /\ t.nextScheduledIncrementDate = s.nextScheduledIncrementDate
         /\ t.incrementsGranted = s.incrementsGranted
         /\ t.incrementAnalysis.regular = s.incrementAnalysis.regular
         /\ ~Contains(t.remarks, "Annual Increment applied")
         /\ remarked =>
              Contains(Last(t.periods).remarks, TerminationRemark)
         /\ NoGradeOrPromotion(t.remarks) =>
              /\ t.incrementAnalysis = s.incrementAnalysis
              /\ t.currentCommission = s.currentCommission
                   => Last(t.periods).basicPay = s.currentPay

\* C18 as stated: when a test is required, is neither passed nor exempted, and
\* the scheduled increment date is more than 5 years after the probation
\* start, the run does not abort: the period of the month in which the
\* increment falls due carries the remark "PROBATION TERMINATED", no increment
\* is granted, and a period is emitted for every later month.
C18_TerminationRemarkInDueMonth ==
    [][\A i \in Runs : ProbationTermination(i, TRUE)]_vars

\* C18 amended: the same, the remark being carried by the period of every
\* month from the due month on in which no selection/special grade or
\* promotion is applied.
C18_TerminationRemark ==
    [][\A i \in Runs : ProbationTermination(i, FALSE)]_vars

\* a probationer whose probation started on 2011-06-30, test failed, at the end
\* of the run: every month from July 2016 carries the remark, no increment
\* was granted and all fifteen months were emitted
C18_Witness ==
    \E i \in Runs :
        /\ input[i].hasTestRequirement
        /\ input[i].testStatus = "Failed"
        /\ input[i].probationStartDate = Some(DateUTC(2011, 5, 30))
        /\ input[i].selectionGradeDate = None
        /\ sim[i].pc = "done"
        /\ Len(sim[i].periods) = RunMonths + 1
        /\ sim[i].incrementsGranted = 0
        /\ \A k \in 1..Len(sim[i].periods) :
              Contains(sim[i].periods[k].remarks, TerminationRemark) <=> k >= 7

\* the representations of pay set in state s, the one the commission calls
\* for, and the period of a month carrying the pay band fields exactly in
\* commission 6; with exactly, no other representation is set
Representation(s, exactly) ==
    LET scale == IsSome(s.currentScaleString)
        band == IsSome(s.currentPipb) /\ IsSome(s.currentGradePay)
        noBand == s.currentPipb = None /\ s.currentGradePay = None
        level == s.currentLevel # 0
    IN /\ s.currentCommission \in 3..7
       /\ s.currentCommission \in 3..5 => scale /\ noBand /\ ~level
       /\ s.currentCommission = 6 => band /\ ~level /\ (exactly => ~scale)
       /\ s.currentCommission = 7 => level /\ noBand /\ (exactly => ~scale)
       /\ \A k \in 1..Len(s.periods) :
            LET p == s.periods[k] IN
            IF p.commission = 6
               THEN IsSome(p.payInPayBand) /\ IsSome(p.gradePay)
               ELSE p.payInPayBand = None /\ p.gradePay = None

\* C19 as stated: in every reachable simulation state exactly one pay
\* representation is set, the one determined by commission (scaleString only
\* for commissions 3-5, PIPB and grade pay only for commission 6, level only
\* for commission 7), and an emitted period carries payInPayBand and gradePay
\* if and only if its commission is 6.
C19_ExactlyOneRepresentation ==
    \A i \in Runs : Live(sim[i]) => Representation(sim[i], TRUE)

\* C19 amended: the representation of the commission is set, PIPB and grade
\* pay are set in commission 6 only and the level in commission 7 only, and a
\* period carries payInPayBand and gradePay if and only if its commission is
\* 6; the scale string of an employee who was in the 5th PC stays set in
\* commissions 6 and 7.
C19_RepresentationOfCommission ==
    \A i \in Runs : Live(sim[i]) => Representation(sim[i], FALSE)

\* the career through every commission at its end: in the 7th PC with the
\* level set and the pay band cleared, periods of commission 6 behind it
C19_Witness ==
    \E i \in Runs :
        /\ sim[i].pc = "done"
        /\ sim[i].currentCommission = 7
        /\ sim[i].currentLevel # 0
        /\ sim[i].currentPipb = None
        /\ IsSome(sim[i].fixation4thPC) /\ IsSome(sim[i].fixation6thPC)
        /\ \E k \in 1..Len(sim[i].periods) :
              /\ sim[i].periods[k].commission = 6
              /\ IsSome(sim[i].periods[k].payInPayBand)

\* run i is relieved before its requested end and run j is the same input
\* with calculationEndDate set to the date of relief
RelievedEarly(i, j) ==
    /\ IsSome(input[i].dateOfRelief) /\ IsSome(input[i].calculationEndDate)
    /\ Val(input[i].dateOfRelief) < Val(input[i].calculationEndDate)
    /\ input[j] = [input[i] EXCEPT !.calculationEndDate = input[i].dateOfRelief]

Ended(s) == s.pc \in {"done", "error"}

\* C20: when dateOfRelief is before the requested calculationEndDate, the
\* effective end is the relief date: no period is emitted for a date after the
\* relief date, and the output (the result, or the error) equals the output
\* of the same input with calculationEndDate set to the relief date.
C20_ReliefIsEffectiveEnd ==
    \A i \in Runs : \A j \in Runs :
        RelievedEarly(i, j) =>
            LET relief == Val(input[i].dateOfRelief) IN
            /\ Live(sim[i]) => sim[i].calcEndDate = relief
            /\ \A k \in 1..Len(sim[i].periods) :
                  DateUTC(sim[i].periods[k].year, sim[i].periods[k].month, 1) <= relief
            /\ sim[i].pc = "loop" =>
                  (Len(sim[i].periods) > 0 => sim[i].currentDate <= AddMonths(relief, 1))
            /\ (Ended(sim[i]) /\ Ended(sim[j])) =>
                  /\ sim[i].pc = sim[j].pc
                  /\ sim[i].error = sim[j].error
                  /\ sim[i].periods = sim[j].periods
                  /\ sim[i].result = sim[j].result

\* both runs returned the same result, seven months from July 2015 to the
\* January 2016 of the relief with the 7th-PC fixation in it, two months short
\* of the requested end
C20_Witness ==
    \E i \in Runs : \E j \in Runs :
        /\ RelievedEarly(i, j)
        /\ i # j
        /\ Val(input[i].dateOfRelief) = DateUTC(2016, 0, 15)
        /\ Val(input[i].calculationEndDate) = DateUTC(2016, 2, 1)
        /\ sim[i].pc = "done" /\ sim[j].pc = "done"
        /\ sim[i].result = sim[j].result
        /\ Len(sim[i].periods) = 7
        /\ IsSome(Val(sim[i].result).fixation7thPC)

RECURSIVE SumOfAmounts(_)
SumOfAmounts(deductions) ==
    IF Len(deductions) = 0 THEN 0
    ELSE Head(deductions).amount + SumOfAmounts(Tail(deductions))

\* the deduction of the given name is listed in the period
Listed(p, name) == \E k \in 1..Len(p.deductions) : p.deductions[k].name = name

\* C21: in every emitted period grossPay = basicPay + daAmount + hra + cca +
\* medicalAllowance, totalDeductions is the sum of the listed deductions
\* (CPS/GPF always listed, Professional Tax and GIS only when > 0, with the
\* amounts of the input), and netPay = grossPay - totalDeductions.
C21_PeriodArithmetic ==
    \A i \in Runs : \A k \in 1..Len(sim[i].periods) :
        LET p == sim[i].periods[k]
            data == input[i]
        IN /\ p.grossPay = p.basicPay + p.daAmount + p.hra + p.cca + p.medicalAllowance
           /\ p.medicalAllowance = data.medicalAllowance
           /\ p.totalDeductions = SumOfAmounts(p.deductions)
           /\ p.netPay = p.grossPay - p.totalDeductions
           /\ Listed(p, "CPS/GPF")
           /\ Listed(p, "Professional Tax") <=> data.professionalTax > 0
           /\ Listed(p, "GIS") <=> data.gisContribution > 0
           /\ \A d \in 1..Len(p.deductions) :
                /\ p.deductions[d].name \in {"CPS/GPF", "Professional Tax", "GIS"}
                /\ p.deductions[d].name = "Professional Tax"
                     => p.deductions[d].amount = data.professionalTax
                /\ p.deductions[d].name = "GIS"
                     => p.deductions[d].amount = data.gisContribution
                /\ \A e \in 1..Len(p.deductions) :
                     p.deductions[e].name = p.deductions[d].name => e = d

\* a month of the 6th PC with DA, HRA and CCA all paid, the professional tax
\* deducted and no GIS
C21_Witness ==
    \E i \in Runs : \E k \in 1..Len(sim[i].periods) :
        LET p == sim[i].periods[k] IN
        /\ input[i].professionalTax > 0 /\ input[i].gisContribution = 0
        /\ p.daAmount > 0 /\ p.hra > 0 /\ p.cca > 0 /\ p.medicalAllowance > 0
        /\ Len(p.deductions) = 2
        /\ p.deductions[1].amount > 0
        /\ p.netPay < p.grossPay

\* C22: after any sequence of simulated months, incrementAnalysis.total equals
\* regular + selectionGrade + specialGrade + promotion + accountTest.
C22_TotalIsSumOfCategories ==
    \A i \in Runs :
        LET a == sim[i].incrementAnalysis IN
        a.total = a.regular + a.selectionGrade + a.specialGrade + a.promotion
                  + a.accountTest

\* a finished run with a regular increment, a selection grade, a promotion
\* and an account-test increment counted
C22_Witness ==
    \E i \in Runs :
        LET a == sim[i].incrementAnalysis IN
        /\ sim[i].pc = "done"
        /\ a.regular > 0 /\ a.selectionGrade > 0 /\ a.promotion > 0
        /\ a.accountTest > 0
        /\ a.total >= 4

\* the stage of the month a remark is written in: 1 a DA change, 2 a
\* commission transition, 3 a grade, promotion or account-test pass, 4 the
\* annual increment logic; 0 for no remark of the engine
RemarkStage(remark) ==
    IF remark = "DA Override applied." THEN 1
    ELSE IF remark \in {FixationRemark(c) : c \in 4..7}
                       \cup {"CCA abolished and merged with Basic Pay in 7th PC."}
       THEN 2
    ELSE IF remark \in (GradeOrPromotionRemarks
                        \cup {"Account Test Passed", "Pay fixed on promotion",
                              "Promotion logic for pre-2006 is simplified"})
       THEN 3
    ELSE IF remark \in ({"Annual Increment applied",
                         "Additional increment for passing Account Test applied."}
                        \cup WithheldRemarks)
       THEN 4
    ELSE 0

\* the DA entries dated in the month of the date t that apply in commission c
DaEntriesApplying(t, c) ==
    { e \in DOMAIN DA_RATES :
        /\ MonthStart(t) <= DA_RATES[e].date
        /\ DA_RATES[e].date < NextMonthStart(t)
        /\ \/ DA_RATES[e].commission = c
           \/ c < 6 /\ DA_RATES[e].commission = 5 }

\* what C23 asks of the month simulated by the step of run i
EventOrder(i) ==
    LET s == sim[i]
        t == sim'[i]
        data == input[i]
        applying == DaEntriesApplying(s.currentDate, s.currentCommission)
        fixed == t.currentCommission # s.currentCommission
        granted == Contains(t.remarks, "Annual Increment applied")
        extra == Contains(t.remarks, "Additional increment for passing Account Test applied.")
    IN (s.pc = "loop" /\ t.pc = "loop" /\ t # s) =>
         /\ \A a \in 1..Len(t.remarks) : \A b \in a..Len(t.remarks) :
               /\ RemarkStage(t.remarks[a]) \in 1..4
               /\ RemarkStage(t.remarks[a]) <= RemarkStage(t.remarks[b])
         \* the DA entries are judged by the commission before the transition
         /\ IF applying = {}
               THEN t.currentDaRate = s.currentDaRate
               ELSE \E e \in applying :
                      t.currentDaRate = IF IsSome(data.daOverride)
                                           THEN Val(data.daOverride)
                                           ELSE DA_RATES[e].rate
         \* a grade or promotion after a transition starts from the fixed pay
         /\ (fixed /\ ~NoGradeOrPromotion(t.remarks))
               => t.currentPay >= SnapshotPay(t, t.currentCommission)
         \* the annual increment comes last: it is taken on the fixed pay
         /\ (fixed /\ granted)
               => t.currentPay = IncrementedPay(t, SnapshotPay(t, t.currentCommission),
                                                IF extra THEN 2 ELSE 1)

\* C23: within one simulated month the events are applied in priority order:
\* every DA change before any commission transition, every commission
\* transition before any selection/special grade, promotion or account-test
\* pass; the annual-increment logic runs only after all events of the month.
C23_EventOrder == [][\A i \in Runs : EventOrder(i)]_vars

\* January 1986 of a joiner of July 1985 with a DA override and an account test
\* passed on 1986-01-20: the override, the fixation, the pass and the two
\* increments, in this order
C23_Witness ==
    \E i \in Runs :
        /\ sim[i].pc = "loop"
        /\ Len(sim[i].periods) = 7
        /\ LET r == Last(sim[i].periods).remarks IN
           /\ Len(r) = 5
           /\ r[1] = "DA Override applied."
           /\ r[2] = FixationRemark(4)
           /\ r[3] = "Account Test Passed"
           /\ r[4] = "Annual Increment applied"
           /\ r[5] = "Additional increment for passing Account Test applied."

\* the number of remarks of the month that belong to the given set
RECURSIVE CountRemarks(_, _)
CountRemarks(remarks, set) ==
    IF Len(remarks) = 0 THEN 0
    ELSE (IF Head(remarks) \in set THEN 1 ELSE 0) + CountRemarks(Tail(remarks), set)

GradeRemarks == GradeOrPromotionRemarks \ {"Promotion"}

\* the increment actions counted so far, the account-test increments apart
IncrementActions(a) == a.regular + a.selectionGrade + a.specialGrade + a.promotion

\* C24: in any single month at most one increment action among selection
\* grade, special grade, promotion and annual increment changes the pay; when
\* a selection/special grade fires in a month where the annual increment is
\* also due, no annual increment is granted in that month and
\* nextScheduledIncrementDate is left unchanged by that month.
C24_OneIncrementActionPerMonth ==
    [][\A i \in Runs :
         LET s == sim[i]
             t == sim'[i]
             due == /\ IsSome(s.nextScheduledIncrementDate)
                    /\ s.currentDate >= Val(s.nextScheduledIncrementDate)
         IN (s.pc = "loop" /\ t.pc = "loop" /\ t # s) =>
              /\ CountRemarks(t.remarks, IncrementRemarks) <= 1
              /\ IncrementActions(t.incrementAnalysis)
                    <= IncrementActions(s.incrementAnalysis) + 1
              /\ CountRemarks(t.remarks, IncrementRemarks) = 0
                    => t.currentPay = PayBeforeIncrement(s, t)
              /\ (due /\ CountRemarks(t.remarks, GradeRemarks) > 0)
                    => /\ ~Contains(t.remarks, "Annual Increment applied")
                       /\ t.incrementsGranted = s.incrementsGranted
                       /\ t.incrementAnalysis.regular = s.incrementAnalysis.regular
                       /\ t.nextScheduledIncrementDate = s.nextScheduledIncrementDate]_vars

\* a month with a selection grade and the annual increment both due has been
\* simulated: the grade is in its remarks, the scheduled date is still that
\* month's and no increment was granted
C24_Witness ==
    \E i \in Runs :
        /\ sim[i].pc = "loop"
        /\ Len(sim[i].periods) > 0
        /\ LET p == Last(sim[i].periods) IN
           /\ CountRemarks(p.remarks, GradeRemarks) = 1
           /\ IsSome(sim[i].nextScheduledIncrementDate)
           /\ Val(sim[i].nextScheduledIncrementDate) = DateUTC(p.year, p.month, 1)
           /\ sim[i].incrementsGranted = 0
           /\ sim[i].incrementAnalysis.regular = 0

\* the date lies in a month for which run i emitted a period
InEmittedMonth(i, date) ==
    \E k \in 1..Len(sim[i].periods) :
        /\ sim[i].periods[k].year = getUTCFullYear(date)
        /\ sim[i].periods[k].month = getUTCMonth(date)

\* the promotions of the input dated in a simulated month
PromotionsInRange(i) ==
    { k \in DOMAIN input[i].promotions :
        /\ IsSome(input[i].promotions[k].date)
        /\ InEmittedMonth(i, Val(input[i].promotions[k].date)) }

\* C25: every promotion whose date falls in a simulated month is applied
\* exactly once, in that month: at the end of the run incrementAnalysis.promotion
\* equals the number of promotions dated within the simulated range, also when
\* a promotion shares its month with a selection/special grade or with another
\* promotion. (Stated for the runs that emit every month they simulate.)
C25_EveryPromotionApplied ==
    \A i \in Runs :
        (/\ sim[i].pc = "done"
         /\ Val(input[i].calculationStartDate) <= Val(input[i].dateOfJoining))
            => sim[i].incrementAnalysis.promotion = Cardinality(PromotionsInRange(i))

\* the schedule changes of the input effective on or before the date
ChangesEffectiveBy(data, date) ==
    { k \in DOMAIN data.annualIncrementChanges :
        /\ IsSome(data.annualIncrementChanges[k].effectiveDate)
        /\ Val(data.annualIncrementChanges[k].effectiveDate) <= date }

\* the latest of them, the later in the list among equal dates
LatestChangeBy(data, date) ==
    LET Eff(k) == Val(data.annualIncrementChanges[k].effectiveDate)
        k == CHOOSE a \in ChangesEffectiveBy(data, date) :
                \A b \in ChangesEffectiveBy(data, date) :
                    Eff(b) < Eff(a) \/ (Eff(b) = Eff(a) /\ b <= a)
    IN data.annualIncrementChanges[k]

\* C26: after an annual increment is granted on scheduled date D, the next
\* scheduled date is D plus one year with its month replaced by the increment
\* month of the latest schedule change whose effectiveDate is <= that new
\* date, so a schedule change that becomes effective between the grant and the
\* new date is already honoured by the new date.
C26_NextDateHonoursLatestChange ==
    [][\A i \in Runs :
         LET s == sim[i]
             t == sim'[i]
             data == input[i]
             D == Val(s.nextScheduledIncrementDate)
             newDate == setUTCFullYear(D, getUTCFullYear(D) + 1)
         IN (/\ s.pc = "loop" /\ t.pc = "loop"
             /\ t.incrementsGranted = s.incrementsGranted + 1
             /\ ChangesEffectiveBy(data, newDate) # {})
              => t.nextScheduledIncrementDate =
                   Some(setUTCMonth(newDate,
                          MonthIndex(LatestChangeBy(data, newDate).incrementMonth)))]_vars

\* the account-test passes of the input dated in a simulated month
PassesInRange(i) ==
    { k \in DOMAIN input[i].accountTestPasses :
        /\ IsSome(input[i].accountTestPasses[k].passDate)
        /\ InEmittedMonth(i, Val(input[i].accountTestPasses[k].passDate)) }

\* C27: every account-test pass event processed by the simulation grants one
\* extra increment on the next granted annual increment: at the end of a run
\* in which an annual increment follows each of them (no pass is left
\* pending), incrementAnalysis.accountTest equals the number of processed pass
\* events, also when two passes fall between two consecutive annual
\* increments. (Stated for the runs that emit every month they simulate.)
C27_EveryPassRewarded ==
    \A i \in Runs :
        (/\ sim[i].pc = "done"
         /\ Val(input[i].calculationStartDate) <= Val(input[i].dateOfJoining)
         /\ ~sim[i].accountTestIncrementPending)
            => sim[i].incrementAnalysis.accountTest = Cardinality(PassesInRange(i))

\* what C28 asks of the step of run i once a month with a withheld increment
\* has been emitted; the remark is asked of every later month, or of every
\* later month in which no grade or promotion is applied
StaysWithheld(i, everyMonth) ==
    LET s == sim[i]
        t == sim'[i]
    IN (/\ s.pc = "loop" /\ t # s
        /\ Len(s.periods) > 0
        /\ HasWithheldRemark(Last(s.periods).remarks))
         => /\ t.incrementsGranted = s.incrementsGranted
            /\ t.nextScheduledIncrementDate = s.nextScheduledIncrementDate
            /\ t.incrementAnalysis.regular = s.incrementAnalysis.regular
            /\ t.incrementAnalysis.accountTest = s.incrementAnalysis.accountTest
            /\ t.accountTestIncrementPending = s.accountTestIncrementPending
            /\ t.pc = "loop" =>
                 /\ Len(t.periods) = Len(s.periods) + 1
                 /\ ~Contains(t.remarks, "Annual Increment applied")
                 /\ (everyMonth \/ NoGradeOrPromotion(t.remarks))
                      => HasWithheldRemark(Last(t.periods).remarks)

\* C28 as stated: while the probation-gated increment is withheld because the
\* required test is not passed, incrementsGranted and
\* nextScheduledIncrementDate do not change in any later month, no regular and
\* no account-test increment is granted for the rest of the run and a
\* "withheld" remark is attached to every later month.
C28_WithheldEveryLaterMonth == [][\A i \in Runs : StaysWithheld(i, TRUE)]_vars

\* C28 amended: the same, the "withheld" remark being attached to every later
\* month in which no selection/special grade or promotion is applied.
C28_WithheldForTheRestOfTheRun == [][\A i \in Runs : StaysWithheld(i, FALSE)]_vars

\* a 2-year probationer at the end of the run: the first increment granted,
\* the second withheld in January, February and March 2017, the account test
\* passed in May 2016 still waiting for its increment
C28_Witness ==
    \E i \in Runs :
        /\ input[i].probationPeriodType = "2 Years"
        /\ input[i].hasTestRequirement
        /\ sim[i].pc = "done"
        /\ sim[i].incrementsGranted = 1
        /\ sim[i].nextScheduledIncrementDate = Some(DateUTC(2017, 0, 1))
        /\ sim[i].accountTestIncrementPending
        /\ sim[i].incrementAnalysis.accountTest = 0
        /\ Len(sim[i].periods) = RunMonths + 1
        /\ \A k \in 1..Len(sim[i].periods) :
              HasWithheldRemark(sim[i].periods[k].remarks) <=> k >= 13

\* the annual increment was due and eligible in the month emitted last and a
\* grade or promotion was applied in that month
IncrementDeferred(data, s) ==
    LET p == Last(s.periods)
        D == Val(s.nextScheduledIncrementDate)
        eligibility == calculateProbationIncrementEligibility(
                           data, s.incrementsGranted + 1, D)
    IN /\ s.pc = "loop"
       /\ s.currentDate <= s.calcEndDate
       /\ Len(s.periods) > 0
       /\ ~NoGradeOrPromotion(p.remarks)
       /\ IsSome(s.nextScheduledIncrementDate)
       /\ D <= DateUTC(p.year, p.month, 1)
       /\ eligibility.eligible
       /\ eligibility.effectiveDate <= DateUTC(p.year, p.month, 1)

\* C29: an annual increment that is due and eligible in a month where a
\* selection/special grade or promotion fired is not lost: it is granted in
\* the next simulated month in which no such event fires, and the scheduled
\* date after it is computed from the original scheduled date (one year later,
\* in the increment month of the schedule), not from the delayed grant month.
C29_DeferredIncrementGranted ==
    [][\A i \in Runs :
         LET s == sim[i]
             t == sim'[i]
             data == input[i]
             D == Val(s.nextScheduledIncrementDate)
             schedule == LatestChangeBy(data, s.currentDate)
         IN (IncrementDeferred(data, s) /\ t # s /\ t.pc = "loop") =>
              /\ Len(t.periods) = Len(s.periods) + 1
              /\ IF NoGradeOrPromotion(t.remarks)
                    THEN /\ Contains(Last(t.periods).remarks, "Annual Increment applied")
                         /\ t.incrementsGranted = s.incrementsGranted + 1
                         /\ t.incrementAnalysis.regular = s.incrementAnalysis.regular + 1
                         /\ ChangesEffectiveBy(data, s.currentDate) # {}
                              => t.nextScheduledIncrementDate =
                                   Some(setUTCMonth(
                                          setUTCFullYear(D, getUTCFullYear(D) + 1),
                                          MonthIndex(schedule.incrementMonth)))
                    ELSE /\ t.incrementsGranted = s.incrementsGranted
                         /\ t.nextScheduledIncrementDate = s.nextScheduledIncrementDate]_vars

\* the increment due in January 2016 with the selection grade, put off again by
\* the promotion of February and the special grade of March, granted in April
\* 2016 with the next one scheduled for 2017-01-01
C29_Witness ==
    \E i \in Runs :
        /\ sim[i].pc = "loop"
        /\ Len(sim[i].periods) = 4
        /\ ~NoGradeOrPromotion(sim[i].periods[1].remarks)
        /\ ~NoGradeOrPromotion(sim[i].periods[2].remarks)
        /\ ~NoGradeOrPromotion(sim[i].periods[3].remarks)
        /\ Contains(sim[i].periods[4].remarks, "Annual Increment applied")
        /\ sim[i].incrementsGranted = 1
        /\ sim[i].nextScheduledIncrementDate = Some(DateUTC(2017, 0, 1))

\* the promotion applied in the month of date: the first one of the list dated
\* in that month
PromotionsOfMonth(data, date) ==
    { k \in DOMAIN data.promotions :
        /\ IsSome(data.promotions[k].date)
        /\ MonthStart(date) <= Val(data.promotions[k].date)
        /\ Val(data.promotions[k].date) < NextMonthStart(date) }

PromotionOfMonth(data, date) ==
    data.promotions[CHOOSE k \in PromotionsOfMonth(data, date) :
                       \A j \in PromotionsOfMonth(data, date) : k <= j]

\* a selection or special grade is dated in the month of date
GradeInMonth(data, date) ==
    \E g \in {data.selectionGradeDate, data.specialGradeDate} :
        /\ IsSome(g)
        /\ MonthStart(date) <= Val(g)
        /\ Val(g) < NextMonthStart(date)

\* the month fixed the pay on a promotion as the structure of the month asks
PromotionFixed(data, s, t) ==
    LET promo == PromotionOfMonth(data, s.currentDate)
        moved == t.currentCommission # s.currentCommission
        oldPay == PayBeforeIncrement(s, t)
        oldLevel == IF moved THEN Val(t.fixation7thPC).level ELSE s.currentLevel
        oldGradePay == IF moved THEN Some(Val(t.fixation6thPC).initialGradePay)
                       ELSE s.currentGradePay
        notional7 == getIncrement(oldPay, oldLevel, 1, 7, None).newPay
        notional6 == getIncrement(oldPay, 0, 1, 6, oldGradePay)
        gp == Val(promo.gradePay)
        pipb == Max(Val(notional6.newPipb), PAY_BAND_LIMITS_6TH_PC[gp].min)
    IN /\ PromotionsOfMonth(data, s.currentDate) # {}
       /\ t.currentCommission = 7 =>
            /\ IsSome(promo.level)
            /\ Val(promo.level) \in DOMAIN PAY_MATRIX
            /\ t.currentLevel = Val(promo.level)
            /\ t.currentPay = LeastStageFrom(Val(promo.level), notional7)
       /\ t.currentCommission = 6 =>
            /\ IsSome(promo.gradePay)
            /\ t.currentGradePay = promo.gradePay
            /\ t.currentPipb = Some(pipb)
            /\ t.currentPay = pipb + gp

\* the month meets a promotion in the 7th PC whose level is no level of the
\* pay matrix
PromotionToUnknownLevel(data, s) ==
    /\ s.pc = "loop"
    /\ s.currentDate <= s.calcEndDate
    /\ s.currentCommission = 7
    /\ ~GradeInMonth(data, s.currentDate)
    /\ PromotionsOfMonth(data, s.currentDate) # {}
    /\ LET promo == PromotionOfMonth(data, s.currentDate)
       IN ~IsSome(promo.level) \/ Val(promo.level) \notin DOMAIN PAY_MATRIX

\* C30: a promotion takes one notional increment in the current structure and
\* re-fixes in the new one: in the 7th PC the new basicPay is the least stage
\* of PayMatrix[newLevel] >= the notionally incremented pay (the maximum stage
\* if none) and level becomes newLevel; in the 6th PC grade pay becomes the
\* promotion's grade pay, PIPB = max(notional PIPB, band.min of the new grade
\* pay) and basicPay = PIPB + GP; a 7th-PC promotion whose level is not in the
\* pay matrix aborts the run with an error.
C30_PromotionFixation ==
    [][\A i \in Runs :
         LET s == sim[i]
             t == sim'[i]
             data == input[i]
         IN /\ (t # s /\ t.pc = "loop" /\ t.currentCommission >= 6
                  /\ Contains(t.remarks, "Pay fixed on promotion"))
               => PromotionFixed(data, s, t)
            /\ (t # s /\ PromotionToUnknownLevel(data, s))
               => /\ t.pc = "error"
                  /\ t.error = "Invalid level for promotion"
                  /\ t.periods = s.periods]_vars

\* a promotion of May 2016 from 15700 in level 1 to level 8: the notional
\* increment gives 16200 and the pay is fixed at 35400, the least stage of
\* level 8
C30_Witness ==
    \E i \in Runs :
        /\ sim[i].pc = "loop"
        /\ Len(sim[i].periods) > 1
        /\ Contains(Last(sim[i].periods).remarks, "Pay fixed on promotion")
        /\ Last(sim[i].periods).commission = 7
        /\ sim[i].periods[Len(sim[i].periods) - 1].basicPay = 15700
        /\ sim[i].periods[Len(sim[i].periods) - 1].commission = 7
        /\ Last(sim[i].periods).basicPay = 35400
        /\ sim[i].currentLevel = 8

\* the values reached by stepping through the scale from pay up to its maximum
RECURSIVE StagesFrom(_, _)
StagesFrom(pay, scale) ==
    IF pay >= scale.max THEN {pay}
    ELSE {pay} \cup StagesFrom(StepInScale(pay, scale), scale)

\* the maximum if the pay is at or above it, the start if the pay is below it,
\* otherwise the first value stepped to from the start that is above the pay,
\* capped at the maximum
fitNextHigher(pay, scaleString) ==
    LET scale == parseScale(scaleString)
        above == { v \in StagesFrom(scale.start, scale) : v > pay }
        first == CHOOSE v \in above : \A w \in above : v <= w
    IN IF pay >= scale.max THEN scale.max
       ELSE IF pay < scale.start THEN scale.start
       ELSE Min(first, scale.max)

\* no increment, grade or promotion was applied in the month
NoPayMovement(remarks) ==
    /\ NoGradeOrPromotion(remarks)
    /\ ~Contains(remarks, "Annual Increment applied")

\* the 3 -> 4 or 4 -> 5 fixation of the step from s to t, with the DA portion
\* and the interim relief given
LegacyFixation(s, t, snapshot, basicPay, table, daPortion, interimRelief) ==
    LET mapped == Val(ScaleByLegacy(table, s.currentScaleString)).scale
        total == s.currentPay + daPortion + interimRelief
    IN /\ basicPay = s.currentPay
       /\ snapshot.daPortion = daPortion
       /\ snapshot.totalPay = total
       /\ snapshot.initialRevisedPay = fitNextHigher(total, mapped)
       /\ NoPayMovement(t.remarks) =>
            /\ t.currentPay = snapshot.initialRevisedPay
            /\ t.currentScaleString = Some(mapped)
            /\ Len(t.periods) > Len(s.periods) =>
                  Last(t.periods).basicPay = snapshot.initialRevisedPay

\* C31: at the 4 -> 5 transition the new basicPay is fitNextHigher(basicPay +
\* 958 + 100, mapped 5th-PC scale), at 3 -> 4 fitNextHigher(basicPay + 0,
\* mapped 4th-PC scale): the scale maximum if the total is >= max, the scale
\* start if the total is < start, otherwise the first value reached by stepping
\* from the scale start that is strictly greater than the total, capped at
\* max; scaleString becomes the mapped scale and the snapshot records the basic
\* pay, DA portion, total and result.
C31_LegacyFixation ==
    [][\A i \in Runs :
         LET s == sim[i]
             t == sim'[i]
         IN /\ (s.pc = "loop" /\ t.pc = "loop" /\ s.currentCommission = 3
                   /\ t.currentCommission = 4)
               => /\ DOMAIN Val(t.fixation4thPC)
                        = {"basicPay1986", "daPortion", "totalPay", "initialRevisedPay"}
                  /\ LegacyFixation(s, t, Val(t.fixation4thPC),
                                    Val(t.fixation4thPC).basicPay1986,
                                    PAY_SCALES_4TH_PC, 0, 0)
            /\ (s.pc = "loop" /\ t.pc = "loop" /\ s.currentCommission = 4
                   /\ t.currentCommission = 5)
               => /\ Val(t.fixation5thPC).interimRelief = 100
                  /\ LegacyFixation(s, t, Val(t.fixation5thPC),
                                    Val(t.fixation5thPC).basicPay1995,
                                    PAY_SCALES_5TH_PC, 958, 100)]_vars

\* a basic pay of 1492 in January 1996: the total 2550 is the start of the
\* mapped scale and the pay is fixed at the stage above it, 2605
C31_Witness ==
    \E i \in Runs :
        /\ sim[i].pc = "loop"
        /\ sim[i].currentCommission = 5
        /\ IsSome(sim[i].fixation5thPC)
        /\ Val(sim[i].fixation5thPC).basicPay1995 = 1492
        /\ Val(sim[i].fixation5thPC).totalPay = 2550
        /\ Val(sim[i].fixation5thPC).initialRevisedPay = 2605
        /\ Contains(Last(sim[i].periods).remarks, FixationRemark(5))
        /\ Last(sim[i].periods).basicPay = 2605

\* x * 1.86 rounded to the nearest integer, one half going up
RoundedFitment6(x) ==
    IF (x * 186) % 100 >= 50 THEN (x * 186) \div 100 + 1 ELSE (x * 186) \div 100

\* the grade pay of the 6th-PC entry that replaces the 5th-PC scale
MappedGradePay(scaleString) ==
    LET entries == { k \in DOMAIN PAY_SCALES_6TH_PC :
                       Some(PAY_SCALES_6TH_PC[k].scale) = scaleString }
    IN PAY_SCALES_6TH_PC[CHOOSE k \in entries : \A j \in entries : k <= j].gradePay

\* C32: at the 5 -> 6 transition PIPB = round(basicPay * 1.86), grade pay is
\* taken from the 6th-PC scale entry mapped to the current 5th-PC scale,
\* basicPay = PIPB + GP, and the snapshot's initialPayInPayBand,
\* initialGradePay and initialRevisedBasicPay equal these values.
C32_SixthPcFixation ==
    [][\A i \in Runs :
         LET s == sim[i]
             t == sim'[i]
             snapshot == Val(t.fixation6thPC)
             pipb == RoundedFitment6(s.currentPay)
             gp == MappedGradePay(s.currentScaleString)
         IN (s.pc = "loop" /\ t.pc = "loop" /\ s.currentCommission = 5
                /\ t.currentCommission = 6)
            => /\ snapshot.basicPay2005 = s.currentPay
               /\ snapshot.multipliedPay = pipb
               /\ snapshot.initialPayInPayBand = pipb
               /\ snapshot.initialGradePay = gp
               /\ snapshot.initialRevisedBasicPay = pipb + gp
               /\ t.currentGradePay = Some(gp)
               /\ NoPayMovement(t.remarks) =>
                    /\ t.currentPipb = Some(pipb)
                    /\ t.currentPay = pipb + gp
                    /\ Len(t.periods) > Len(s.periods) =>
                         /\ Last(t.periods).basicPay = pipb + gp
                         /\ Last(t.periods).payInPayBand = Some(pipb)
                         /\ Last(t.periods).gradePay = Some(gp)]_vars

\* a basic pay of 2625 in January 2006: 2625 * 1.86 = 4882.5, the pay in pay
\* band is 4883 and with the grade pay 1300 the basic pay is 6183
C32_Witness ==
    \E i \in Runs :
        /\ sim[i].pc = "loop"
        /\ sim[i].currentCommission = 6
        /\ IsSome(sim[i].fixation6thPC)
        /\ Val(sim[i].fixation6thPC).basicPay2005 = 2625
        /\ Val(sim[i].fixation6thPC).initialPayInPayBand = 4883
        /\ Val(sim[i].fixation6thPC).initialGradePay = 1300
        /\ Val(sim[i].fixation6thPC).initialRevisedBasicPay = 6183
        /\ Contains(Last(sim[i].periods).remarks, FixationRemark(6))
        /\ Last(sim[i].periods).basicPay = 6183

\* the effective date of the transition into commission c
TransitionDate(c) ==
    CASE c = 4 -> DateUTC(1986, 0, 1)
      [] c = 5 -> DateUTC(1996, 0, 1)
      [] c = 6 -> DateUTC(2006, 0, 1)
      [] c = 7 -> DateUTC(2016, 0, 1)

\* the fixation snapshot of the transition into commission c
Snapshot(s, c) ==
    CASE c = 4 -> s.fixation4thPC
      [] c = 5 -> s.fixation5thPC
      [] c = 6 -> s.fixation6thPC
      [] c = 7 -> s.fixation7thPC

\* the transition into commission c fires in the step from s to t
Fires(s, t, c) ==
    /\ s.pc = "loop"
    /\ t.pc = "loop"
    /\ s.currentCommission = c - 1
    /\ t.currentCommission = c

\* the steps of one run: the commission moves only by a transition into the
\* next one in the month of its date, and a snapshot is written by the
\* transition and by nothing else (a month that ends the run with an error
\* returns nothing)
TransitionSteps(s, t) ==
    /\ (s.pc = "loop" /\ t.pc # "error"
           /\ t.currentCommission # s.currentCommission) =>
          /\ t.currentCommission = s.currentCommission + 1
          /\ getUTCFullYear(s.currentDate)
                = getUTCFullYear(TransitionDate(t.currentCommission))
          /\ getUTCMonth(s.currentDate) = 0
    /\ \A c \in 4..7 :
          /\ Fires(s, t, c) => ~IsSome(Snapshot(s, c)) /\ IsSome(Snapshot(t, c))
          /\ (s.pc # "start" /\ t.pc # "error" /\ Snapshot(t, c) # Snapshot(s, c))
                => Fires(s, t, c)
          /\ (s.pc = "start") => ~IsSome(Snapshot(t, c))

\* C33: each commission transition fires at most once per run, only in the
\* month of its effective date and only when the immediately preceding
\* commission is active; the fixation snapshot of a transition is present in
\* the result if and only if that transition fired, so an employee who joined
\* on or after a transition date never has that snapshot.
C33_TransitionsAndSnapshots ==
    [][\A i \in Runs :
         LET s == sim[i]
             t == sim'[i]
             doj == Val(input[i].dateOfJoining)
         IN /\ TransitionSteps(s, t)
            /\ \A c \in 4..7 :
                  /\ (IsSome(input[i].dateOfJoining) /\ doj >= TransitionDate(c)
                         /\ t.pc # "error")
                        => ~IsSome(Snapshot(t, c))
                  /\ t.pc = "done" =>
                        /\ Snapshot(Val(t.result), c) = Snapshot(s, c)
                        /\ IsSome(Snapshot(Val(t.result), c))
                             <=> /\ doj < TransitionDate(c)
                                 /\ s.currentCommission >= c]_vars

\* a joiner of 1985 whose run ends after January 2016 with the four snapshots
\* in the result
C33_Witness ==
    \E i \in Runs :
        /\ sim[i].pc = "done"
        /\ \A c \in 4..7 : IsSome(Snapshot(Val(sim[i].result), c))
        /\ sim[i].currentCommission = 7

\* the years of probation: a custom period of at most 18 months counts as one
\* year, any other as two
ProbationYearsOf(data) ==
    IF data.probationPeriodType = "1 Year" THEN 1
    ELSE IF data.probationPeriodType = "2 Years" THEN 2
    ELSE IF IsSome(data.probationPeriodMonths)
            /\ Val(data.probationPeriodMonths) <= 18 THEN 1
    ELSE 2

\* the increment of ordinal n waits for the test
WaitsForTest(data, n) ==
    /\ data.hasTestRequirement
    /\ \/ ProbationYearsOf(data) = 1 /\ n = 1
       \/ ProbationYearsOf(data) = 2 /\ n = 2

\* the 5-year rule catches the increment due on the normal date
CaughtByFiveYearRule(data, normalDate) ==
    /\ data.hasTestRequirement
    /\ data.testStatus \notin {"Passed", "Exempted"}
    /\ normalDate - Val(data.probationStartDate) > 1826

\* the month of the step from s to t decided on the annual increment: it was
\* due and no grade or promotion of the month came before it
DecidesOnIncrement(s, t) ==
    /\ s.pc = "loop"
    /\ t.pc = "loop"
    /\ t # s
    /\ IsSome(s.nextScheduledIncrementDate)
    /\ s.currentDate >= Val(s.nextScheduledIncrementDate)
    /\ NoGradeOrPromotion(t.remarks)

\* the decision of the month follows the rule for the years of probation given
ProbationDecision(data, s, t, gated) ==
    LET n == s.incrementsGranted + 1
        normalDate == Val(s.nextScheduledIncrementDate)
        granted == /\ Contains(t.remarks, "Annual Increment applied")
                   /\ t.incrementsGranted = n
        passed == data.testStatus = "Passed"
    IN IF ~gated
          THEN granted /\ ~HasWithheldRemark(t.remarks)
       ELSE IF ~passed
          THEN ~granted /\ HasWithheldRemark(t.remarks)
                /\ t.incrementsGranted = s.incrementsGranted
       ELSE IsSome(data.testPassedDate) =>
              /\ ~HasWithheldRemark(t.remarks)
              /\ granted <=> s.currentDate >= Max(normalDate, Val(data.testPassedDate))

\* C34: the probation eligibility decision, for every combination of probation
\* type, custom months, test requirement, test status and increment ordinal n
\* not caught by the 5-year rule: no test required gives eligible on the normal
\* date; Custom <= 18 months is treated as 1 year, otherwise 2 years; for 1
\* year with n = 1 and for 2 years with n = 2 the result is eligible only if
\* the test is passed, with effective date max(normal date, pass date), and
\* withheld otherwise; every other n is eligible on the normal date.
C34_ProbationDecision ==
    [][\A i \in Runs :
         LET s == sim[i]
             t == sim'[i]
             data == input[i]
         IN (DecidesOnIncrement(s, t)
               /\ ~CaughtByFiveYearRule(data, Val(s.nextScheduledIncrementDate)))
            => ProbationDecision(data, s, t,
                                 WaitsForTest(data, s.incrementsGranted + 1))]_vars

\* x * 0.03 rounded to the nearest integer, one half going up
RoundedThreePercent(x) ==
    IF (x * 3) % 100 >= 50 THEN (x * 3) \div 100 + 1 ELSE (x * 3) \div 100

\* n times: inc = round((PIPB + GP) * 0.03), PIPB += inc, PIPB clamped to the
\* maximum of the band if the grade pay has a band
RECURSIVE ReferenceIncrement(_, _, _)
ReferenceIncrement(pipb, gp, n) ==
    IF n = 0 THEN pipb
    ELSE LET raised == pipb + RoundedThreePercent(pipb + gp)
             clamped == IF gp \in DOMAIN PAY_BAND_LIMITS_6TH_PC
                           /\ raised > PAY_BAND_LIMITS_6TH_PC[gp].max
                        THEN PAY_BAND_LIMITS_6TH_PC[gp].max
                        ELSE raised
         IN ReferenceIncrement(clamped, gp, n - 1)

\* C35: the 6th-PC increment of n steps (n in {1, 2}) equals the reference
\* that repeats n times 'inc = round((PIPB + GP) * 0.03); PIPB += inc; clamp
\* PIPB to band.max if the band has a max', for every PIPB and grade pay,
\* including PIPB at or above band.max; it returns (PIPB, basicPay = PIPB +
\* GP).
C35_SixthPcIncrement ==
    \A i \in Runs :
        (sim[i].pc = "done" /\ "steps" \in DOMAIN input[i]) =>
            LET reference == ReferenceIncrement(input[i].payInPayBand,
                                                input[i].gradePay, input[i].steps)
            IN /\ Val(sim[i].result).newPipb = Some(reference)
               /\ Val(sim[i].result).newPay = reference + input[i].gradePay

\* two steps from 7300 with grade pay 1300: the first gives 7558, above the
\* band maximum, and the result is the maximum 7440 with basic pay 8740
C35_Witness ==
    \E i \in Runs :
        /\ sim[i].pc = "done"
        /\ "steps" \in DOMAIN input[i]
        /\ input[i].payInPayBand = 7300
        /\ input[i].gradePay = 1300
        /\ input[i].steps = 2
        /\ Val(sim[i].result) = [newPay |-> 8740, newPipb |-> Some(7440)]

\* C36: no increment operation lowers the pay: for every reachable state,
\* including a joining pay or a fixation result that lies above the scale
\* maximum or above the pay-band maximum, basicPay after an annual,
\* account-test or selection/special-grade increment is greater than or equal
\* to basicPay before it.
C36_NoIncrementLowersPay ==
    [][\A i \in Runs :
         LET s == sim[i]
             t == sim'[i]
         IN (s.pc = "loop" /\ t.pc = "loop" /\ t # s
               /\ ~Contains(t.remarks, "Promotion")
               /\ \/ ~NoGradeOrPromotion(t.remarks)
                  \/ Contains(t.remarks, "Annual Increment applied"))
            => t.currentPay >= PayBeforeIncrement(s, t)]_vars

\* run i and run j were given the same input but for the calculation start
\* date, which is later in run j
StartsLater(i, j) ==
    /\ IsSome(input[i].calculationStartDate)
    /\ IsSome(input[j].calculationStartDate)
    /\ Val(input[i].calculationStartDate) < Val(input[j].calculationStartDate)
    /\ [input[i] EXCEPT !.calculationStartDate = input[j].calculationStartDate]
          = input[j]

\* the state of a run but for the periods emitted and the result made of them
StateOf(s) == [s EXCEPT !.periods = <<>>, !.result = None]

\* the periods of the months simulated on or after the date; the day of the
\* month simulated is the day of the date of joining
PeriodsFrom(periods, doj, date) ==
    LET OnOrAfter(p) == DateUTC(p.year, p.month, getUTCDate(doj)) >= date
    IN SelectSeq(periods, OnOrAfter)

\* C37: calculationStartDate only filters the output: for two runs that differ
\* only in calculationStartDate, every period of a month on or after the later
\* start date is identical in both, and the fixation snapshots and
\* incrementAnalysis counters are identical (the state always evolves from the
\* date of joining).
C37_StartDateOnlyFilters ==
    \A i \in Runs : \A j \in Runs :
        StartsLater(i, j) =>
            LET doj == Val(input[i].dateOfJoining)
                later == Val(input[j].calculationStartDate)
            IN /\ (sim[i].pc = sim[j].pc /\ sim[i].currentDate = sim[j].currentDate)
                    => /\ StateOf(sim[i]) = StateOf(sim[j])
                       /\ PeriodsFrom(sim[i].periods, doj, later) = sim[j].periods
               /\ (sim[i].pc = "done" /\ sim[j].pc = "done")
                    => /\ Val(sim[i].result).incrementAnalysis
                             = Val(sim[j].result).incrementAnalysis
                       /\ \A c \in 4..7 : Snapshot(Val(sim[i].result), c)
                                             = Snapshot(Val(sim[j].result), c)
                       /\ PeriodsFrom(sim[j].periods, doj, later) = sim[j].periods

\* both runs returned after a 6 -> 7 fixation and an annual increment, the
\* second with fewer periods than the first and the same counters
C37_Witness ==
    \E i \in Runs : \E j \in Runs :
        /\ StartsLater(i, j)
        /\ sim[i].pc = "done"
        /\ sim[j].pc = "done"
        /\ IsSome(Val(sim[j].result).fixation7thPC)
        /\ Val(sim[j].result).incrementAnalysis.regular > 0
        /\ Len(sim[j].periods) > 0
        /\ Len(sim[j].periods) < Len(sim[i].periods)
        /\ ~Contains(sim[j].periods[1].remarks, FixationRemark(7))

\* the events of the month are DA changes and a pay revision of 2010 for the
\* post held, in the 6th PC, and no annual increment is due
OnlyPayRevision(data, s) ==
    LET events == monthEvents(data, s.currentDate)
    IN /\ s.pc = "loop"
       /\ s.currentDate <= s.calcEndDate
       /\ s.currentCommission = 6
       /\ \A k \in 1..Len(events) : events[k].type \in {"DA_CHANGE", "PAY_REVISION_2010"}
       /\ \E k \in 1..Len(events) :
             /\ events[k].type = "PAY_REVISION_2010"
             /\ events[k].postId = s.currentPostId
       /\ IsSome(s.nextScheduledIncrementDate)
             => s.currentDate < Val(s.nextScheduledIncrementDate)

IsSearch(i) == "newScaleString" \in DOMAIN input[i]

\* every increment of the scale is positive
PositiveIncrements(scale) ==
    \A k \in 1..Len(parseScale(scale).stages) : parseScale(scale).stages[k].inc > 0

\* C39: every run eventually finishes with a result or an error: the monthly
\* loop strictly advances the current date and stops once it exceeds the
\* effective end, and the next-higher-stage search terminates for every scale
\* whose increments are positive.
C39_EveryRunFinishes ==
    /\ [][LET s == sim[1]
              t == sim'[1]
          IN IF IsSearch(1)
                THEN /\ (s.pc = "search" /\ t.pc = "search") => t.pay > s.pay
                     /\ (t.pc = "done" /\ PositiveIncrements(input[1].newScaleString))
                          => t.result = Some(findNextHigherStageInScale(
                                                input[1].currentPay,
                                                input[1].newScaleString))
                ELSE /\ (s.pc = "loop" /\ t.pc = "loop")
                          => /\ s.currentDate <= s.calcEndDate
                             /\ t.currentDate > s.currentDate
                             /\ t.calcEndDate = s.calcEndDate
                     /\ (s.pc = "loop" /\ t.pc = "done")
                          => s.currentDate > s.calcEndDate
                     /\ (s.pc = "loop" /\ t.pc = "error") => t.error # ""]_vars
    /\ <>(/\ sim[1].pc \in {"done", "error"}
          /\ sim[1].pc = "done" => IsSome(sim[1].result)
          /\ (sim[1].pc = "error" /\ ~IsSearch(1)) => sim[1].error # "")

\* a run of more than a year has returned its result
C39_Witness ==
    /\ ~IsSearch(1)
    /\ sim[1].pc = "done"
    /\ Len(sim[1].periods) > 12
    /\ sim[1].currentDate > sim[1].calcEndDate

====
